---- MODULE Spec2Model ----
(***************************************************************************)
(* Voting, karma and nested-comment subsystem of the portfolio backend     *)
(* (Express routes over Mongoose models).                                  *)
(*                                                                         *)
(* The store is modelled as three collections: users (their karma),        *)
(* posts and comments.  Document ids are the positions of the documents    *)
(* in the collection (ids are fresh and never reused; no document is ever  *)
(* physically removed).  An id above the collection's length is the id of  *)
(* a document that does not exist.  JavaScript's -1 "not found" index is   *)
(* 0 here, sequences being 1-based.                                        *)
(*                                                                         *)
(* A route handler is an action on the store, R(...), together with the    *)
(* response it sends, RResponse(...): the status and the JSON body, as the *)
(* handler computes them from the request and the store it finds.          *)
(***************************************************************************)
EXTENDS Integers, Sequences, FiniteSets, TLC

VARIABLES
    posts,          \* Post collection: sequence of post documents
    comments,       \* Comment collection: sequence of comment documents
    karma,          \* User collection: karma of every user
    following,      \* User collection: the following array of every user
    followers,      \* User collection: the followers array of every user
    now,            \* clock read by the timestamps option of the comment schema
    versions,       \* the __v (versionKey) of the documents that handlers in progress saved
    inflight,       \* requests whose handler is between two awaits, with its locals
    client,         \* state of the mounted React components
    postVoteKarma,  \* history: karma the post's author got from votes on it
    commentVoteKarma, \* history: the same for every comment
    scenario        \* history: scores returned along the section 8 scenario

vars == <<posts, comments, karma, following, followers, now,
          versions, inflight, client,
          postVoteKarma, commentVoteKarma, scenario>>

(* ------------------------------ bounds -------------------------------- *)

\* Users that exist in the store (accounts are never deleted).
Users == {"A", "B"}

\* Vote specification: documents (posts and comments) created, and the cap
\* on karma.
MaxVoteDocs == 2
MaxKarma == 3

\* Comment-tree specification: documents (posts and comments) created.
MaxDocs == 4

\* Largest limit a client passes to getReplies.
MaxLimit == 2

\* Comment-creation specification: documents (posts and comments) created.
MaxCreateDocs == 3

\* Comment-editing specification: comments created (on one post), the cap
\* on karma, and the users that vote.
MaxEditComments == 2
MaxEditKarma == 4
EditVoters == {"A"}

\* Comment-listing specification: documents (posts and comments) created,
\* the cap on karma, and the largest page a client asks for.
MaxListDocs == 3
MaxListKarma == 4
MaxPage == 2

\* Authentication specification: documents (posts and comments) created and
\* the cap on karma.
MaxAuthDocs == 2
MaxAuthKarma == 3

\* Concurrency specification: requests whose handlers interleave.
MaxRequests == 2
MaxRaceKarma == 3

\* Storage-fault specification: documents (posts and comments) created and
\* createComment requests handled step by step.
MaxFaultDocs == 3
MaxFaultRequests == 1

\* Thread specification: comments created, and 'Show N replies' clicks.
MaxThreadComments == 5
MaxExpands == 4

\* Voting specification: comments on the page, clicks on vote buttons.
MaxVotingComments == 1
MaxVotingRequests == 2
MaxVotingKarma == 3

\* Section specification: top-level comments of the post, the page the
\* 'Load More Comments' clicks reach, and requests waiting for an answer.
MaxSectionComments == 21
MaxLoadPage == 3
MaxFetches == 2

\* Follow specification: posts created, and karma reached by votes.
MaxFollowDocs == 2
MaxFollowKarma == 2

(* ----------------------- arrays (JavaScript) -------------------------- *)

\* Array.prototype.indexOf: first position of x, 0 when absent.
IndexOf(arr, x) ==
    IF \E i \in 1..Len(arr) : arr[i] = x
    THEN CHOOSE i \in 1..Len(arr) : arr[i] = x /\ \A j \in 1..(i - 1) : arr[j] # x
    ELSE 0

\* Array.prototype.includes
Includes(arr, x) == \E i \in 1..Len(arr) : arr[i] = x

\* arr.splice(i, 1): the array without its element at position i
Splice(arr, i) == [j \in 1..(Len(arr) - 1) |-> IF j < i THEN arr[j] ELSE arr[j + 1]]

\* arr.push(x)
Push(arr, x) == Append(arr, x)

(* ---------------------- strings (JavaScript) -------------------------- *)

\* A string is the sequence of its characters.  Characters that
\* String.prototype.trim and validator's trim remove.
Whitespace == {" "}

\* Position of the first character of s at or after i that is not
\* whitespace; Len(s) + 1 when there is none.
RECURSIVE SkipLeft(_, _)
SkipLeft(s, i) ==
    IF i > Len(s) THEN i
    ELSE IF s[i] \in Whitespace THEN SkipLeft(s, i + 1) ELSE i

\* Position of the last character of s at or before i that is not
\* whitespace; 0 when there is none.
RECURSIVE SkipRight(_, _)
SkipRight(s, i) ==
    IF i < 1 THEN i
    ELSE IF s[i] \in Whitespace THEN SkipRight(s, i - 1) ELSE i

\* String.prototype.trim, body(...).trim(), and the trim: true setter of a
\* schema string
Trim(s) ==
    LET first == SkipLeft(s, 1)
        last == SkipRight(s, Len(s))
    IN  IF first = 1 /\ last = Len(s) THEN s ELSE SubSeq(s, first, last)

(* ------------------------- Post model --------------------------------- *)

\* title: { maxlength: 300 }, content: { maxlength: 10000 } of the schema,
\* and the max of createPostValidation
MaxTitleLength == 300
MaxPostContentLength == 10000

\* new Post({author, title, content, ...}) with the schema defaults (the
\* title goes through the trim: true setter)
NewPost(author, title, content) ==
    [author |-> author, title |-> Trim(title), content |-> content,
     isDeleted |-> FALSE, upvotes |-> <<>>, downvotes |-> <<>>,
     comments |-> <<>>]

\* Mutant of PostVoteScore: the downvotes are not subtracted.
PostVoteScoreUpOnly(post) == Len(post.upvotes)

\* postSchema.virtual('voteScore')
PostVoteScore(post) == Len(post.upvotes) - Len(post.downvotes)

\* Mutant of PostUpvote: the upvote is added and a downvote of the same user
\* is left in place.
PostUpvoteNoSwitch(post, userId) ==
    LET upIndex == IndexOf(post.upvotes, userId)
    IN  IF upIndex > 0
        THEN [post EXCEPT !.upvotes = Splice(post.upvotes, upIndex)]
        ELSE [post EXCEPT !.upvotes = Push(post.upvotes, userId)]

\* postSchema.methods.upvote (the document as saved)
PostUpvote(post, userId) ==
    LET upIndex == IndexOf(post.upvotes, userId)
        downIndex == IndexOf(post.downvotes, userId)
    IN  IF upIndex > 0
        THEN [post EXCEPT !.upvotes = Splice(post.upvotes, upIndex)]
        ELSE [post EXCEPT !.upvotes = Push(post.upvotes, userId),
                          !.downvotes = IF downIndex > 0
                                        THEN Splice(post.downvotes, downIndex)
                                        ELSE post.downvotes]

\* Mutant of PostDownvote: a repeated downvote is not retracted.
PostDownvoteNoToggle(post, userId) ==
    LET upIndex == IndexOf(post.upvotes, userId)
        downIndex == IndexOf(post.downvotes, userId)
    IN  IF downIndex > 0
        THEN post
        ELSE [post EXCEPT !.downvotes = Push(post.downvotes, userId),
                          !.upvotes = IF upIndex > 0
                                      THEN Splice(post.upvotes, upIndex)
                                      ELSE post.upvotes]

\* postSchema.methods.downvote (the document as saved)
PostDownvote(post, userId) ==
    LET upIndex == IndexOf(post.upvotes, userId)
        downIndex == IndexOf(post.downvotes, userId)
    IN  IF downIndex > 0
        THEN [post EXCEPT !.downvotes = Splice(post.downvotes, downIndex)]
        ELSE [post EXCEPT !.downvotes = Push(post.downvotes, userId),
                          !.upvotes = IF upIndex > 0
                                      THEN Splice(post.upvotes, upIndex)
                                      ELSE post.upvotes]

\* postSchema.methods.hasVoted
PostHasVoted(post, userId) ==
    [upvoted |-> \E i \in 1..Len(post.upvotes) : post.upvotes[i] = userId,
     downvoted |-> \E i \in 1..Len(post.downvotes) : post.downvotes[i] = userId]

\* postSchema.methods.softDelete
PostSoftDelete(post) == [post EXCEPT !.isDeleted = TRUE]

\* Post.findById: the document, or null
PostExists(id) == id \in 1..Len(posts)

(* ------------------------ Comment model ------------------------------- *)

\* content: { maxlength: 5000 } of the schema, max: 5000 of the validation
MaxContentLength == 5000

\* The content softDelete leaves: '[deleted]'
DeletedPlaceholder == <<"[", "d", "e", "l", "e", "t", "e", "d", "]">>

\* Mutant of NewComment: the parent is not recorded in the new comment.
NewCommentTopLevel(post, author, content, parentComment, t) ==
    [post |-> post, author |-> author, content |-> Trim(content),
     parentComment |-> 0,
     replies |-> <<>>, upvotes |-> <<>>, downvotes |-> <<>>,
     isEdited |-> FALSE, editedAt |-> 0,
     isDeleted |-> FALSE, createdAt |-> t]

\* new Comment({post, author, content, parentComment}) with the schema
\* defaults; parentComment 0 is null, editedAt 0 is null
NewComment(post, author, content, parentComment, t) ==
    [post |-> post, author |-> author, content |-> Trim(content),
     parentComment |-> parentComment,
     replies |-> <<>>, upvotes |-> <<>>, downvotes |-> <<>>,
     isEdited |-> FALSE, editedAt |-> 0,
     isDeleted |-> FALSE, createdAt |-> t]

\* commentSchema.virtual('voteScore')
CommentVoteScore(comment) == Len(comment.upvotes) - Len(comment.downvotes)

\* Mutant of CommentUpvote: the upvote is added and a downvote of the same
\* user is left in place.
CommentUpvoteKeepDown(comment, userId) ==
    LET upIndex == IndexOf(comment.upvotes, userId)
    IN  IF upIndex > 0
        THEN [comment EXCEPT !.upvotes = Splice(comment.upvotes, upIndex)]
        ELSE [comment EXCEPT !.upvotes = Push(comment.upvotes, userId)]

\* commentSchema.methods.upvote (the document as saved)
CommentUpvote(comment, userId) ==
    LET upIndex == IndexOf(comment.upvotes, userId)
        downIndex == IndexOf(comment.downvotes, userId)
    IN  IF upIndex > 0
        THEN [comment EXCEPT !.upvotes = Splice(comment.upvotes, upIndex)]
        ELSE [comment EXCEPT !.upvotes = Push(comment.upvotes, userId),
                             !.downvotes = IF downIndex > 0
                                           THEN Splice(comment.downvotes, downIndex)
                                           ELSE comment.downvotes]

\* Mutant of CommentDownvote: a repeated downvote is pushed again instead of
\* being retracted.
CommentDownvoteNoRetract(comment, userId) ==
    LET upIndex == IndexOf(comment.upvotes, userId)
    IN  [comment EXCEPT !.downvotes = Push(comment.downvotes, userId),
                        !.upvotes = IF upIndex > 0
                                    THEN Splice(comment.upvotes, upIndex)
                                    ELSE comment.upvotes]

\* commentSchema.methods.downvote (the document as saved)
CommentDownvote(comment, userId) ==
    LET upIndex == IndexOf(comment.upvotes, userId)
        downIndex == IndexOf(comment.downvotes, userId)
    IN  IF downIndex > 0
        THEN [comment EXCEPT !.downvotes = Splice(comment.downvotes, downIndex)]
        ELSE [comment EXCEPT !.downvotes = Push(comment.downvotes, userId),
                             !.upvotes = IF upIndex > 0
                                         THEN Splice(comment.upvotes, upIndex)
                                         ELSE comment.upvotes]

\* commentSchema.methods.hasVoted
CommentHasVoted(comment, userId) ==
    [upvoted |-> \E i \in 1..Len(comment.upvotes) : comment.upvotes[i] = userId,
     downvoted |-> \E i \in 1..Len(comment.downvotes) : comment.downvotes[i] = userId]

\* Mutant of AddReply: the reply is put first (unshift) instead of last.
AddReplyUnshift(comment, replyId) ==
    IF ~Includes(comment.replies, replyId)
    THEN [comment EXCEPT !.replies = <<replyId>> \o comment.replies]
    ELSE comment

\* commentSchema.methods.addReply (the document as saved)
AddReply(comment, replyId) ==
    IF ~Includes(comment.replies, replyId)
    THEN [comment EXCEPT !.replies = Push(comment.replies, replyId)]
    ELSE comment

\* Mutant of CommentEdit: the comment is not marked as edited.
CommentEditUnmarked(comment, newContent, t) ==
    [comment EXCEPT !.content = Trim(newContent), !.editedAt = t]

\* commentSchema.methods.edit at time t (the document as saved)
CommentEdit(comment, newContent, t) ==
    [comment EXCEPT !.content = Trim(newContent), !.isEdited = TRUE, !.editedAt = t]

\* Mutant of CommentSoftDelete: the deleted comment lets go of its replies.
CommentSoftDeletePrune(comment) ==
    [comment EXCEPT !.isDeleted = TRUE, !.content = DeletedPlaceholder,
                    !.replies = <<>>]

\* commentSchema.methods.softDelete
CommentSoftDelete(comment) ==
    [comment EXCEPT !.isDeleted = TRUE, !.content = DeletedPlaceholder]

\* Comment.findById: the document, or null
CommentExists(id) == id \in 1..Len(comments)

(* ------------- queries: find / sort / limit (Mongoose) ----------------- *)

\* The ids of S in ascending createdAt (equal timestamps: in id order).
RECURSIVE SortByCreatedAsc(_)
SortByCreatedAsc(S) ==
    IF S = {} THEN <<>>
    ELSE LET first == CHOOSE c \in S : \A d \in S :
                          \/ comments[c].createdAt < comments[d].createdAt
                          \/ comments[c].createdAt = comments[d].createdAt /\ c <= d
         IN  <<first>> \o SortByCreatedAsc(S \ {first})

\* The order of the users' ObjectIds (ids grow with the time of creation
\* of the account).
UserIdOrder == <<"A", "B">>

\* The key MongoDB sorts a document by for { 'votes.upvotes': -1 }: a
\* descending sort on an array field compares the largest element of the
\* array, and an empty array comes after every value (0).
UpvotesSortKey(comment) ==
    IF comment.upvotes = <<>> THEN 0
    ELSE CHOOSE k \in 1..Len(UserIdOrder) :
             /\ Includes(comment.upvotes, UserIdOrder[k])
             /\ \A j \in (k + 1)..Len(UserIdOrder) :
                    ~Includes(comment.upvotes, UserIdOrder[j])

\* a comes before b in a descending sort on the keys of a and b, compared
\* field by field
RECURSIVE KeyBefore(_, _)
KeyBefore(a, b) ==
    IF a = <<>> THEN FALSE
    ELSE IF Head(a) # Head(b) THEN Head(a) > Head(b)
    ELSE KeyBefore(Tail(a), Tail(b))

\* Query.sort(...) with every field descending: the ids of S by their keys
\* (equal keys: in id order).
RECURSIVE SortByKeyDesc(_, _)
SortByKeyDesc(S, key) ==
    IF S = {} THEN <<>>
    ELSE LET first == CHOOSE c \in S : \A d \in S \ {c} :
                          KeyBefore(key[c], key[d]) \/ (key[c] = key[d] /\ c < d)
         IN  <<first>> \o SortByKeyDesc(S \ {first}, key)

\* Query.skip(n)
Skip(arr, n) == SubSeq(arr, n + 1, Len(arr))

\* Query.limit(n)
Limit(arr, n) == SubSeq(arr, 1, IF Len(arr) < n THEN Len(arr) ELSE n)

\* Mutant of GetReplies: the replies of a soft-deleted comment are not
\* returned.
GetRepliesOfLive(commentId, limit) ==
    IF commentId \in 1..Len(comments) /\ comments[commentId].isDeleted THEN <<>>
    ELSE Limit(SortByCreatedAsc({c \in 1..Len(comments) :
                   /\ comments[c].parentComment = commentId
                   /\ ~comments[c].isDeleted}), limit)

\* commentSchema.statics.getReplies: the ids of the documents returned
GetReplies(commentId, limit) ==
    Limit(SortByCreatedAsc({c \in 1..Len(comments) :
              /\ comments[c].parentComment = commentId
              /\ ~comments[c].isDeleted}), limit)

(* --------------------------- the store -------------------------------- *)

\* User documents whose isAdmin flag is set (the schema default is false;
\* the flag is only ever set in the database by an operator).
Admins == {"B"}

\* Mutant of IsAdmin: every user passes for an admin.
IsAdminAnyone(user) == TRUE

\* req.user.isAdmin
IsAdmin(user) == user \in Admins

\* doc.save() of one document of a collection
SavePost(id, post) == [posts EXCEPT ![id] = post]
SaveComment(id, comment) == [comments EXCEPT ![id] = comment]

\* No component is mounted: nobody is logged in, and CommentSection has
\* the initial values of its useState hooks.
NoClient ==
    [user |-> "none", mounted |-> FALSE, postId |-> 0,
     comments |-> <<>>, page |-> 1, hasMore |-> TRUE, isLoading |-> TRUE,
     sortBy |-> "top", fetches |-> <<>>, items |-> <<>>]

Init ==
    /\ posts = <<>>
    /\ comments = <<>>
    /\ karma = [u \in Users |-> 0]
    /\ following = [u \in Users |-> <<>>]
    /\ followers = [u \in Users |-> <<>>]
    /\ now = 1
    /\ versions = [post |-> <<>>, comment |-> <<>>]
    /\ inflight = <<>>
    /\ client = NoClient
    /\ postVoteKarma = <<>>
    /\ commentVoteKarma = <<>>
    /\ scenario = <<>>

(* ----------------------- middleware (auth.js) --------------------------- *)

\* An id that parses as an ObjectId and belongs to no User document
GhostUser == "Z"

\* No Authorization header, no token cookie, an empty token
NoHeader == [scheme |-> "none"]
NoToken == [signed |-> FALSE, id |-> "none"]

\* Mutant of IsAuthenticated: the token is decoded and not verified, so
\* that a token jwt.verify rejects passes.
IsAuthenticatedUnverified(req) ==
    LET fromHeader == IF req.authorization # NoHeader
                         /\ req.authorization.scheme = "Bearer"
                      THEN req.authorization.token
                      ELSE NoToken
        token == IF fromHeader = NoToken /\ req.cookie # NoToken
                 THEN req.cookie
                 ELSE fromHeader
    IN  IF token = NoToken THEN [status |-> 401, user |-> "none"]
        ELSE IF token.id \notin Users THEN [status |-> 401, user |-> "none"]
        ELSE [status |-> 0, user |-> token.id]

\* isAuthenticated: the token is the rest of an Authorization header that
\* starts with 'Bearer ', else the token cookie; no token, a token that
\* jwt.verify rejects and a token whose user findById does not find are
\* answered 401; otherwise req.user is set and next() runs
IsAuthenticated(req) ==
    LET fromHeader == IF req.authorization # NoHeader
                         /\ req.authorization.scheme = "Bearer"
                      THEN req.authorization.token
                      ELSE NoToken
        token == IF fromHeader = NoToken /\ req.cookie # NoToken
                 THEN req.cookie
                 ELSE fromHeader
    IN  IF token = NoToken THEN [status |-> 401, user |-> "none"]
        ELSE IF ~token.signed THEN [status |-> 401, user |-> "none"]
        ELSE IF token.id \notin Users THEN [status |-> 401, user |-> "none"]
        ELSE [status |-> 0, user |-> token.id]

(* ----------------------- user routes (user.routes.js) ------------------- *)

\* array.filter(userId => !userId.equals(id))
Without(arr, id) == SelectSeq(arr, LAMBDA userId : userId # id)

\* Mutant of FollowLists: a follow is recorded with the follower only.
FollowListsOneSided(lists, user, id) ==
    IF id = user \/ id \notin Users THEN lists
    ELSE IF Includes(lists.following[user], id)
    THEN [following |-> [lists.following EXCEPT ![user] = Without(@, id)],
          followers |-> [lists.followers EXCEPT ![id] = Without(@, user)]]
    ELSE [following |-> [lists.following EXCEPT ![user] = Push(@, id)],
          followers |-> lists.followers]

\* The following and followers lists of the users after the handler of
\* POST /:id/follow ran on lists: untouched by a 400 or 404 answer, else
\* both filtered (unfollow) or both pushed to (follow) and saved
FollowLists(lists, user, id) ==
    IF id = user \/ id \notin Users THEN lists
    ELSE IF Includes(lists.following[user], id)
    THEN [following |-> [lists.following EXCEPT ![user] = Without(@, id)],
          followers |-> [lists.followers EXCEPT ![id] = Without(@, user)]]
    ELSE [following |-> [lists.following EXCEPT ![user] = Push(@, id)],
          followers |-> [lists.followers EXCEPT ![id] = Push(@, user)]]

\* router.post('/:id/follow', isAuthenticated, ...): follow or unfollow
Follow(user, id) ==
    LET lists == FollowLists([following |-> following, followers |-> followers],
                             user, id)
    IN  /\ following' = lists.following
        /\ followers' = lists.followers
        /\ UNCHANGED <<posts, comments, karma, now>>

FollowResponse(user, id) ==
    IF id = user THEN [status |-> 400, isFollowing |-> FALSE]
    ELSE IF id \notin Users THEN [status |-> 404, isFollowing |-> FALSE]
    ELSE [status |-> 200, isFollowing |-> ~Includes(following[user], id)]

(* ----------------------- post routes (posts.js) ------------------------ *)

\* The 404 test of every route on one post: if (!post || post.isDeleted)
PostNotFound(id) == ~PostExists(id) \/ posts[id].isDeleted

\* createPostValidation: body('title').trim().isLength({min: 1, max: 300}),
\* body('content').trim().isLength({min: 1, max: 10000})
CreatePostValidation(title, content) ==
    /\ Len(Trim(title)) >= 1
    /\ Len(Trim(title)) <= MaxTitleLength
    /\ Len(Trim(content)) >= 1
    /\ Len(Trim(content)) <= MaxPostContentLength

\* Mutant of CreatePost: the author's karma is not incremented.
CreatePostNoKarma(user, title, content) ==
    IF ~CreatePostValidation(title, content)
    THEN UNCHANGED <<posts, comments, karma, now, following, followers>>
    ELSE /\ posts' = Append(posts, NewPost(user, title, Trim(content)))
         /\ UNCHANGED <<comments, karma, now, following, followers>>

\* router.post('/', isAuthenticated, createPostValidation, ...): create post
\* (the validator's trim() sanitizes req.body before the handler reads it)
CreatePost(user, title, content) ==
    IF ~CreatePostValidation(title, content)
    THEN UNCHANGED <<posts, comments, karma, now, following, followers>>
    ELSE /\ posts' = Append(posts, NewPost(user, title, Trim(content)))
         /\ karma' = [karma EXCEPT ![user] = @ + 1]
         /\ UNCHANGED <<comments, now, following, followers>>

CreatePostResponse(user, title, content) ==
    IF ~CreatePostValidation(title, content)
    THEN [status |-> 400, id |-> 0]
    ELSE [status |-> 201, id |-> Len(posts) + 1]

\* post.save() of the update route throws a ValidationError (answered 500)
\* when the assigned title or content breaks the schema: title is trimmed,
\* required and at most 300 long, content is at most 10000 long
EditPostSaveFails(title, content) ==
    \/ title # <<>> /\ (Trim(title) = <<>> \/ Len(Trim(title)) > MaxTitleLength)
    \/ Len(content) > MaxPostContentLength

\* router.put('/:id', isAuthenticated, ...): update post
\* if (title) post.title = title; if (content) post.content = content;
EditPost(user, id, title, content) ==
    /\ IF PostNotFound(id)
       THEN UNCHANGED posts
       ELSE IF posts[id].author # user /\ ~IsAdmin(user)
       THEN UNCHANGED posts
       ELSE IF EditPostSaveFails(title, content)
       THEN UNCHANGED posts
       ELSE posts' = SavePost(id,
                [posts[id] EXCEPT
                    !.title = IF title # <<>> THEN Trim(title) ELSE @,
                    !.content = IF content # <<>> THEN content ELSE @])
    /\ UNCHANGED <<comments, karma, now, following, followers>>

EditPostResponse(user, id, title, content) ==
    IF PostNotFound(id) THEN [status |-> 404]
    ELSE IF posts[id].author # user /\ ~IsAdmin(user) THEN [status |-> 403]
    ELSE IF EditPostSaveFails(title, content) THEN [status |-> 500]
    ELSE [status |-> 200]

\* router.delete('/:id', isAuthenticated, ...): soft delete of a post
DeletePost(user, id) ==
    /\ IF PostNotFound(id)
       THEN UNCHANGED posts
       ELSE IF posts[id].author # user /\ ~IsAdmin(user)
       THEN UNCHANGED posts
       ELSE posts' = SavePost(id, PostSoftDelete(posts[id]))
    /\ UNCHANGED <<comments, karma, now, following, followers>>

DeletePostResponse(user, id) ==
    IF PostNotFound(id) THEN [status |-> 404]
    ELSE IF posts[id].author # user /\ ~IsAdmin(user) THEN [status |-> 403]
    ELSE [status |-> 200]

\* const voteDiff = ... of the upvote routes, on the document as saved
VoteDiff(doc, user) ==
    IF Includes(doc.upvotes, user) THEN 1
    ELSE IF Includes(doc.downvotes, user) THEN -1 ELSE 0

\* router.post('/:id/upvote', isAuthenticated, ...) of posts
UpvotePost(user, id) ==
    /\ IF PostNotFound(id)
       THEN UNCHANGED <<posts, karma>>
       ELSE LET post == PostUpvote(posts[id], user)
            IN  /\ posts' = SavePost(id, post)
                /\ karma' = [karma EXCEPT ![post.author] = @ + VoteDiff(post, user)]
    /\ UNCHANGED <<comments, now, following, followers>>

UpvotePostResponse(user, id) ==
    IF PostNotFound(id) THEN [status |-> 404]
    ELSE LET post == PostUpvote(posts[id], user)
         IN  [status |-> 200, voteScore |-> PostVoteScore(post),
              userVote |-> PostHasVoted(post, user)]

\* router.post('/:id/downvote', isAuthenticated, ...) of posts
DownvotePost(user, id) ==
    /\ IF PostNotFound(id)
       THEN UNCHANGED posts
       ELSE posts' = SavePost(id, PostDownvote(posts[id], user))
    /\ UNCHANGED <<comments, karma, now, following, followers>>

DownvotePostResponse(user, id) ==
    IF PostNotFound(id) THEN [status |-> 404]
    ELSE LET post == PostDownvote(posts[id], user)
         IN  [status |-> 200, voteScore |-> PostVoteScore(post),
              userVote |-> PostHasVoted(post, user)]

(* --------------------- comment routes (comment.routes.js) -------------- *)

\* Mutant of CommentNotFound: the isDeleted flag is not tested.
CommentNotFoundIgnoresDeleted(id) == ~CommentExists(id)

\* The 404 test of every route on one comment:
\* if (!comment || comment.isDeleted)
CommentNotFound(id) == ~CommentExists(id) \/ comments[id].isDeleted

\* The 404 tests of create comment: the post, then the parent comment when
\* parentCommentId is truthy (0 is an absent parentCommentId)
CreateCommentNotFound(postId, parentCommentId) ==
    \/ PostNotFound(postId)
    \/ parentCommentId # 0 /\ CommentNotFound(parentCommentId)

\* Mutant of CreateCommentValidation: the length is tested without trim().
CreateCommentValidationNoTrim(content) ==
    Len(content) >= 1 /\ Len(content) <= MaxContentLength

\* createCommentValidation: body('content').trim().isLength({min: 1, max: 5000});
\* TRUE when validationResult(req) has no error
CreateCommentValidation(content) ==
    Len(Trim(content)) >= 1 /\ Len(Trim(content)) <= MaxContentLength

\* router.post('/', isAuthenticated, createCommentValidation, ...):
\* create comment
CreateComment(user, postId, content, parentCommentId) ==
    IF ~CreateCommentValidation(content) \/ CreateCommentNotFound(postId, parentCommentId)
    THEN UNCHANGED <<posts, comments, karma, now, following, followers>>
    ELSE LET id == Len(comments) + 1
             saved == Append(comments,
                             NewComment(postId, user, content, parentCommentId, now))
         IN  /\ posts' = SavePost(postId,
                    [posts[postId] EXCEPT !.comments = Push(@, id)])
             /\ comments' = IF parentCommentId # 0
                            THEN [saved EXCEPT ![parentCommentId] =
                                      AddReply(saved[parentCommentId], id)]
                            ELSE saved
             /\ now' = now + 1
             /\ karma' = [karma EXCEPT ![user] = @ + 1]
             /\ UNCHANGED <<following, followers>>

CreateCommentResponse(user, postId, content, parentCommentId) ==
    IF ~CreateCommentValidation(content) THEN [status |-> 400]
    ELSE IF CreateCommentNotFound(postId, parentCommentId) THEN [status |-> 404]
    ELSE [status |-> 201, id |-> Len(comments) + 1]

\* router.put('/:id', isAuthenticated, ...): update comment.  A content
\* longer than maxlength makes save() throw a ValidationError, answered 500.
EditComment(user, id, content) ==
    /\ IF CommentNotFound(id)
       THEN UNCHANGED comments
       ELSE IF comments[id].author # user /\ ~IsAdmin(user)
       THEN UNCHANGED comments
       ELSE IF Len(content) = 0 \/ Len(Trim(content)) = 0
       THEN UNCHANGED comments
       ELSE IF Len(Trim(content)) > MaxContentLength
       THEN UNCHANGED comments
       ELSE comments' = SaveComment(id, CommentEdit(comments[id], content, now))
    /\ UNCHANGED <<posts, karma, now, following, followers>>

EditCommentResponse(user, id, content) ==
    IF CommentNotFound(id) THEN [status |-> 404]
    ELSE IF comments[id].author # user /\ ~IsAdmin(user) THEN [status |-> 403]
    ELSE IF Len(content) = 0 \/ Len(Trim(content)) = 0 THEN [status |-> 400]
    ELSE IF Len(Trim(content)) > MaxContentLength THEN [status |-> 500]
    ELSE [status |-> 200, comment |-> CommentEdit(comments[id], content, now)]

\* router.delete('/:id', isAuthenticated, ...): soft delete of a comment
DeleteComment(user, id) ==
    /\ IF CommentNotFound(id)
       THEN UNCHANGED comments
       ELSE IF comments[id].author # user /\ ~IsAdmin(user)
       THEN UNCHANGED comments
       ELSE comments' = SaveComment(id, CommentSoftDelete(comments[id]))
    /\ UNCHANGED <<posts, karma, now, following, followers>>

DeleteCommentResponse(user, id) ==
    IF CommentNotFound(id) THEN [status |-> 404]
    ELSE IF comments[id].author # user /\ ~IsAdmin(user) THEN [status |-> 403]
    ELSE [status |-> 200]

\* router.post('/:id/upvote', isAuthenticated, ...) of comments
UpvoteComment(user, id) ==
    /\ IF CommentNotFound(id)
       THEN UNCHANGED <<comments, karma>>
       ELSE LET comment == CommentUpvote(comments[id], user)
            IN  /\ comments' = SaveComment(id, comment)
                /\ karma' = [karma EXCEPT ![comment.author] = @ + VoteDiff(comment, user)]
    /\ UNCHANGED <<posts, now, following, followers>>

UpvoteCommentResponse(user, id) ==
    IF CommentNotFound(id) THEN [status |-> 404]
    ELSE LET comment == CommentUpvote(comments[id], user)
         IN  [status |-> 200, voteScore |-> CommentVoteScore(comment),
              userVote |-> CommentHasVoted(comment, user)]

\* router.post('/:id/downvote', isAuthenticated, ...) of comments
DownvoteComment(user, id) ==
    /\ IF CommentNotFound(id)
       THEN UNCHANGED comments
       ELSE comments' = SaveComment(id, CommentDownvote(comments[id], user))
    /\ UNCHANGED <<posts, karma, now, following, followers>>

DownvoteCommentResponse(user, id) ==
    IF CommentNotFound(id) THEN [status |-> 404]
    ELSE LET comment == CommentDownvote(comments[id], user)
         IN  [status |-> 200, voteScore |-> CommentVoteScore(comment),
              userVote |-> CommentHasVoted(comment, user)]

\* The defaults of the limit and page query parameters of GET /post/:postId.
DefaultCommentsLimit == 20
DefaultPage == 1

\* The filter of GET /post/:postId: the top-level comments of the post that
\* are not soft-deleted
TopLevelFilter(postId) ==
    {c \in 1..Len(comments) :
        /\ comments[c].post = postId
        /\ comments[c].parentComment = 0
        /\ ~comments[c].isDeleted}

\* sortQuery of GET /post/:postId: 'new' is { createdAt: -1 }, anything else
\* (top) is { 'votes.upvotes': -1, createdAt: -1 }
SortQuery(sortBy) ==
    IF sortBy = "new"
    THEN [c \in 1..Len(comments) |-> <<comments[c].createdAt>>]
    ELSE [c \in 1..Len(comments) |->
              <<UpvotesSortKey(comments[c]), comments[c].createdAt>>]

\* router.get('/post/:postId', optionalAuth, ...): reads only
GetComments(postId, sortBy, page, limit) == UNCHANGED <<posts, comments, karma, now, following, followers>>

\* page 0 and limit 0 are absent query parameters
GetCommentsResponse(postId, sortBy, page, limit) ==
    LET pageNo == IF page = 0 THEN DefaultPage ELSE page
        lim == IF limit = 0 THEN DefaultCommentsLimit ELSE limit
        skip == (pageNo - 1) * lim
        found == Limit(Skip(SortByKeyDesc(TopLevelFilter(postId), SortQuery(sortBy)),
                            skip), lim)
        total == Cardinality(TopLevelFilter(postId))
    IN  [status |-> 200, comments |-> found, total |-> total,
         hasMore |-> skip + Len(found) < total]

\* commentSchema.statics.getTopLevel: the ids of the documents returned
GetTopLevel(postId, limit, skip) ==
    Limit(Skip(SortByKeyDesc(TopLevelFilter(postId), SortQuery("top")), skip), limit)

\* The default of the limit query parameter of GET /:commentId/replies.
DefaultRepliesLimit == 10

\* router.get('/:commentId/replies', optionalAuth, ...): reads only
GetRepliesRoute(commentId, limit) == UNCHANGED <<posts, comments, karma, now, following, followers>>

\* limit 0 is an absent limit (parseInt gives NaN, which is falsy, as is 0)
GetRepliesResponse(commentId, limit) ==
    [status |-> 200,
     replies |-> GetReplies(commentId, IF limit = 0 THEN DefaultRepliesLimit ELSE limit)]

(* ------------- handlers in progress: one step per await --------------- *)

\* How document.save() sends a changed array: push(x) on the loaded array
\* is sent as $push, any other change (splice) as $set of the whole array.
ArrayDelta(loaded, local) ==
    IF local = loaded THEN "none"
    ELSE IF Len(local) = Len(loaded) + 1 /\ SubSeq(local, 1, Len(loaded)) = loaded
    THEN "$push"
    ELSE "$set"

\* The stored array after the delta of a save is applied to it.
ApplyArrayDelta(stored, loaded, local) ==
    IF ArrayDelta(loaded, local) = "none" THEN stored
    ELSE IF ArrayDelta(loaded, local) = "$push" THEN Push(stored, local[Len(local)])
    ELSE local

\* The __v of a document (0 until a handler in progress saved it).
VersionOf(kind, id) ==
    IF id <= Len(versions[kind]) THEN versions[kind][id] ELSE 0

\* $inc: {__v: 1} of a save that changed an array.
IncVersion(kind, id) ==
    [versions EXCEPT ![kind] =
        [i \in 1..(IF id > Len(@) THEN id ELSE Len(@)) |->
            (IF i <= Len(@) THEN @[i] ELSE 0) + (IF i = id THEN 1 ELSE 0)]]

\* The stored document of a kind ("post" or "comment").
StoredDoc(kind, id) == IF kind = "post" THEN posts[id] ELSE comments[id]
DocNotFound(kind, id) == IF kind = "post" THEN PostNotFound(id) ELSE CommentNotFound(id)

\* The vote routes: the collection of the document and the method called.
VoteRoutes == {"upvotePost", "downvotePost", "upvoteComment", "downvoteComment"}
KindOf(route) == IF route \in {"upvotePost", "downvotePost"} THEN "post" ELSE "comment"
VoteMethod(route, doc, user) ==
    IF route = "upvotePost" THEN PostUpvote(doc, user)
    ELSE IF route = "downvotePost" THEN PostDownvote(doc, user)
    ELSE IF route = "upvoteComment" THEN CommentUpvote(doc, user)
    ELSE CommentDownvote(doc, user)

\* The request at the head of its handler: nothing loaded, no response
\* (before is history: the store when the request arrived).
NewRequest(route, user, id) ==
    [route |-> route, user |-> user, id |-> id, pc |-> "findById",
     before |-> [posts |-> posts, comments |-> comments, karma |-> karma],
     loaded |-> <<>>, doc |-> <<>>, ver |-> 0, savedVer |-> 0,
     authorKarma |-> 0, voteDiff |-> 0, status |-> 0,
     content |-> <<>>, parentCommentId |-> 0, parent |-> <<>>, comment |-> 0]

\* A request of a vote route arrives (isAuthenticated passed as user).
StartVote(route, user, id) ==
    /\ inflight' = Append(inflight, NewRequest(route, user, id))
    /\ UNCHANGED <<posts, comments, karma, now, following, followers, versions>>

\* const post = await Post.findById(req.params.id); the 404 test
VoteFindById(r) ==
    LET req == inflight[r]
        kind == KindOf(req.route)
    IN  /\ req.pc = "findById"
        /\ inflight' = [inflight EXCEPT ![r] =
              IF DocNotFound(kind, req.id)
              THEN [req EXCEPT !.pc = "done", !.status = 404]
              ELSE [req EXCEPT !.pc = "save",
                               !.loaded = StoredDoc(kind, req.id),
                               !.doc = StoredDoc(kind, req.id),
                               !.ver = VersionOf(kind, req.id)]]
        /\ UNCHANGED <<posts, comments, karma, now, following, followers, versions>>

\* this.save() of a vote method throws VersionError: an array is sent as
\* $set, which save() guards with the __v the document was loaded with
VoteSaveFails(req, local) ==
    /\ \/ ArrayDelta(req.loaded.upvotes, local.upvotes) = "$set"
       \/ ArrayDelta(req.loaded.downvotes, local.downvotes) = "$set"
    /\ VersionOf(KindOf(req.route), req.id) # req.ver

\* await post.upvote(req.user._id) (or downvote, or of a comment): the
\* method changes the loaded document and saves its changes; a downvote
\* route then responds, an upvote route goes on to the author
VoteSave(r) ==
    LET req == inflight[r]
        kind == KindOf(req.route)
        local == VoteMethod(req.route, req.doc, req.user)
        stored == StoredDoc(kind, req.id)
        saved == [stored EXCEPT
                    !.upvotes = ApplyArrayDelta(@, req.loaded.upvotes, local.upvotes),
                    !.downvotes = ApplyArrayDelta(@, req.loaded.downvotes, local.downvotes)]
        next == IF req.route \in {"upvotePost", "upvoteComment"}
                THEN [req EXCEPT !.pc = "findAuthor"]
                ELSE [req EXCEPT !.pc = "done", !.status = 200]
    IN  /\ req.pc = "save"
        /\ IF VoteSaveFails(req, local)
           THEN /\ inflight' = [inflight EXCEPT ![r] =
                      [req EXCEPT !.pc = "done", !.status = 500, !.doc = local,
                                  !.savedVer = VersionOf(kind, req.id) + 1]]
                /\ UNCHANGED <<posts, comments, versions>>
           ELSE /\ inflight' = [inflight EXCEPT ![r] =
                      [next EXCEPT !.doc = local,
                                   !.savedVer = VersionOf(kind, req.id) + 1]]
                /\ versions' = IncVersion(kind, req.id)
                /\ IF kind = "post"
                   THEN posts' = SavePost(req.id, saved) /\ UNCHANGED comments
                   ELSE comments' = SaveComment(req.id, saved) /\ UNCHANGED posts
        /\ UNCHANGED <<karma, now, following, followers>>

\* const author = await User.findById(post.author)
VoteFindAuthor(r) ==
    LET req == inflight[r]
    IN  /\ req.pc = "findAuthor"
        /\ inflight' = [inflight EXCEPT ![r] =
              [req EXCEPT !.pc = "saveAuthor", !.authorKarma = karma[req.doc.author]]]
        /\ UNCHANGED <<posts, comments, karma, now, following, followers, versions>>

\* author.karma += voteDiff; await author.save(); res.json(...): save()
\* sends $set of karma when its value changed
VoteSaveAuthor(r) ==
    LET req == inflight[r]
        voteDiff == VoteDiff(req.doc, req.user)
    IN  /\ req.pc = "saveAuthor"
        /\ inflight' = [inflight EXCEPT ![r] =
              [req EXCEPT !.pc = "done", !.status = 200, !.voteDiff = voteDiff]]
        /\ karma' = IF voteDiff = 0 THEN karma
                    ELSE [karma EXCEPT ![req.doc.author] = req.authorKarma + voteDiff]
        /\ UNCHANGED <<posts, comments, now, following, followers, versions>>

\* A request of POST /comments arrives; createCommentValidation answers
\* 400 before the handler's first await.
StartCreateComment(user, postId, content, parentCommentId) ==
    /\ inflight' = Append(inflight,
          [NewRequest("createComment", user, postId) EXCEPT
              !.content = content, !.parentCommentId = parentCommentId,
              !.pc = IF CreateCommentValidation(content) THEN "findPost" ELSE "done",
              !.status = IF CreateCommentValidation(content) THEN 0 ELSE 400])
    /\ UNCHANGED <<posts, comments, karma, now, following, followers, versions>>

\* const post = await Post.findById(postId); the 404 test
CreateFindPost(r) ==
    LET req == inflight[r]
    IN  /\ req.pc = "findPost"
        /\ inflight' = [inflight EXCEPT ![r] =
              IF PostNotFound(req.id)
              THEN [req EXCEPT !.pc = "done", !.status = 404]
              ELSE [req EXCEPT !.pc = IF req.parentCommentId # 0
                                      THEN "findParent" ELSE "saveComment",
                               !.loaded = posts[req.id], !.doc = posts[req.id],
                               !.ver = VersionOf("post", req.id)]]
        /\ UNCHANGED <<posts, comments, karma, now, following, followers, versions>>

\* const parentComment = await Comment.findById(parentCommentId); the 404
\* test
CreateFindParent(r) ==
    LET req == inflight[r]
    IN  /\ req.pc = "findParent"
        /\ inflight' = [inflight EXCEPT ![r] =
              IF CommentNotFound(req.parentCommentId)
              THEN [req EXCEPT !.pc = "done", !.status = 404]
              ELSE [req EXCEPT !.pc = "saveComment"]]
        /\ UNCHANGED <<posts, comments, karma, now, following, followers, versions>>

\* const comment = new Comment({...}); await comment.save()
CreateSaveComment(r) ==
    LET req == inflight[r]
    IN  /\ req.pc = "saveComment"
        /\ comments' = Append(comments,
              NewComment(req.id, req.user, req.content, req.parentCommentId, now))
        /\ now' = now + 1
        /\ inflight' = [inflight EXCEPT ![r] =
              [req EXCEPT !.pc = "savePost", !.comment = Len(comments) + 1]]
        /\ UNCHANGED <<posts, karma, following, followers, versions>>

\* post.comments.push(comment._id); await post.save()
CreateSavePost(r) ==
    LET req == inflight[r]
        local == [req.doc EXCEPT !.comments = Push(@, req.comment)]
    IN  /\ req.pc = "savePost"
        /\ posts' = SavePost(req.id,
              [posts[req.id] EXCEPT
                  !.comments = ApplyArrayDelta(@, req.loaded.comments, local.comments)])
        /\ versions' = IncVersion("post", req.id)
        /\ inflight' = [inflight EXCEPT ![r] =
              [req EXCEPT !.pc = IF req.parentCommentId # 0
                                 THEN "findParentAgain" ELSE "populate",
                          !.doc = local]]
        /\ UNCHANGED <<comments, karma, now, following, followers>>

\* const parentComment = await Comment.findById(parentCommentId) (the
\* second one); if (parentComment)
CreateFindParentAgain(r) ==
    LET req == inflight[r]
    IN  /\ req.pc = "findParentAgain"
        /\ inflight' = [inflight EXCEPT ![r] =
              IF ~CommentExists(req.parentCommentId)
              THEN [req EXCEPT !.pc = "populate"]
              ELSE [req EXCEPT !.pc = "addReply",
                               !.parent = comments[req.parentCommentId]]]
        /\ UNCHANGED <<posts, comments, karma, now, following, followers, versions>>

\* await parentComment.addReply(comment._id)
CreateAddReply(r) ==
    LET req == inflight[r]
        local == AddReply(req.parent, req.comment)
    IN  /\ req.pc = "addReply"
        /\ comments' = SaveComment(req.parentCommentId,
              [comments[req.parentCommentId] EXCEPT
                  !.replies = ApplyArrayDelta(@, req.parent.replies, local.replies)])
        /\ versions' = IF local = req.parent THEN versions
                       ELSE IncVersion("comment", req.parentCommentId)
        /\ inflight' = [inflight EXCEPT ![r] = [req EXCEPT !.pc = "populate"]]
        /\ UNCHANGED <<posts, karma, now, following, followers>>

\* await comment.populate('author', ...)
CreatePopulate(r) ==
    LET req == inflight[r]
    IN  /\ req.pc = "populate"
        /\ inflight' = [inflight EXCEPT ![r] = [req EXCEPT !.pc = "incKarma"]]
        /\ UNCHANGED <<posts, comments, karma, now, following, followers, versions>>

\* await User.findByIdAndUpdate(req.user._id, {$inc: {karma: 1}});
\* res.status(201)
CreateIncKarma(r) ==
    LET req == inflight[r]
    IN  /\ req.pc = "incKarma"
        /\ karma' = [karma EXCEPT ![req.user] = @ + 1]
        /\ inflight' = [inflight EXCEPT ![r] =
              [req EXCEPT !.pc = "done", !.status = 201]]
        /\ UNCHANGED <<posts, comments, now, following, followers, versions>>

\* The awaited storage call of a handler rejects: the catch block of the
\* route answers 500.
StorageFails(r) ==
    LET req == inflight[r]
    IN  /\ req.pc # "done"
        /\ inflight' = [inflight EXCEPT ![r] =
              [req EXCEPT !.pc = "done", !.status = 500]]
        /\ UNCHANGED <<posts, comments, karma, now, following, followers, versions>>

(* --------------------- client: CommentItem.tsx ------------------------ *)

\* CommentItem returns an element for the comment it is given (it returns
\* null for a deleted comment with no replies).
CommentItemRendered(comment) ==
    ~(comment.isDeleted /\ (comment.replies = <<>>))

\* depth = 0, maxDepth = 6: the defaults of the props of CommentItem;
\* useState(depth < 3) of showReplies
DefaultMaxDepth == 6
ShowRepliesDepth == 3

\* limit: 20 of the getByPost call of fetchComments
SectionPageLimit == 20

\* A comment as the .lean() queries of the listing and of getReplies put it
\* into the response: the stored fields (replies are bare ids, the virtual
\* voteScore is not there) and, for a logged-in user, userVote.
LeanComment(id, user) ==
    [_id |-> id, author |-> comments[id].author,
     parentComment |-> comments[id].parentComment,
     replies |-> comments[id].replies, isDeleted |-> comments[id].isDeleted,
     userVote |-> IF user = "none" THEN "none"
                  ELSE IF Includes(comments[id].upvotes, user) THEN "up"
                  ELSE IF Includes(comments[id].downvotes, user) THEN "down"
                  ELSE "none"]

\* The documents of a list of ids, as a response carries them.
LeanComments(ids, user) == [i \in 1..Len(ids) |-> LeanComment(ids[i], user)]

\* The state of a CommentItem after its first render: the initial values
\* of its useState hooks (comment.voteScore || 0, comment.userVote || null,
\* depth < 3, [] and false).
InitialItem(comment, depth) ==
    [comment |-> comment, depth |-> depth,
     voteScore |-> 0, userVote |-> comment.userVote, isVoting |-> FALSE,
     previousVote |-> "none", previousScore |-> 0,
     showReplies |-> depth < ShowRepliesDepth, replies |-> <<>>,
     isLoadingReplies |-> FALSE, voteRequest |-> 0]

\* replies.find(r => r._id === reply) || comment
FindReply(replies, reply, comment) ==
    IF \E i \in 1..Len(replies) : replies[i]._id = reply
    THEN replies[CHOOSE i \in 1..Len(replies) :
                    /\ replies[i]._id = reply
                    /\ \A j \in 1..(i - 1) : replies[j]._id # reply]
    ELSE comment

\* Mutant of RepliesBlock: the depth test lets depth = maxDepth through.
RepliesBlockOneDeeper(item) ==
    /\ item.depth <= DefaultMaxDepth
    /\ item.comment.replies # <<>>

\* depth < maxDepth && comment.replies && comment.replies.length > 0: the
\* Replies block of a rendered CommentItem is there
RepliesBlock(item) ==
    /\ item.depth < DefaultMaxDepth
    /\ item.comment.replies # <<>>

\* The CommentItem elements under one CommentItem, itself included, as
\* pairs of the path of keys from the top-level comment and the state: a
\* component that was mounted (in old) keeps its state and gets the new
\* prop, a new one starts from its initial state.
RECURSIVE RenderItem(_, _, _, _)
RenderItem(path, comment, depth, old) ==
    LET item == IF path \in DOMAIN old
                THEN [old[path] EXCEPT !.comment = comment]
                ELSE InitialItem(comment, depth)
    IN  IF CommentItemRendered(comment) /\ RepliesBlock(item) /\ item.showReplies
        THEN {<<path, item>>} \cup
             UNION {RenderItem(Append(path, comment.replies[i]),
                               FindReply(item.replies, comment.replies[i], comment),
                               depth + 1, old) : i \in 1..Len(comment.replies)}
        ELSE {<<path, item>>}

\* comments.map(comment => <CommentItem key={comment._id} ... />) of
\* CommentSection: all the CommentItem components mounted after a render.
RenderItems(list, old) ==
    LET pairs == UNION {RenderItem(<<list[i]._id>>, list[i], 0, old) : i \in 1..Len(list)}
    IN  [path \in {pair[1] : pair \in pairs} |->
            (CHOOSE pair \in pairs : pair[1] = path)[2]]

\* The state of the page after a render with the new values new of the
\* CommentSection hooks and the hook values items of the CommentItems.
Rendered(new, items) == [new EXCEPT !.items = RenderItems(new.comments, items)]

\* fetchComments(reset): setIsLoading(true) and the getByPost request with
\* the page and sortBy of the render the callback was made in
FetchComments(state, reset, page) ==
    [state EXCEPT !.isLoading = TRUE,
                  !.fetches = Append(@, [reset |-> reset,
                                         page |-> IF reset THEN 1 ELSE page,
                                         sortBy |-> state.sortBy])]

\* useEffect(() => { fetchComments(true) }, [sortBy, fetchComments]): runs
\* after a render in which sortBy or page (a dependency of fetchComments)
\* differs from the render before
Effect(before, after) ==
    IF after.sortBy # before.sortBy \/ after.page # before.page
    THEN FetchComments(after, TRUE, after.page)
    ELSE after

\* The page of a post is opened by a user (or by nobody logged in):
\* CommentSection mounts and its effect runs for the first time.
OpenPage(user, postId) ==
    /\ ~client.mounted
    /\ client' = FetchComments([NoClient EXCEPT !.user = user, !.mounted = TRUE,
                                                !.postId = postId],
                               TRUE, 1)
    /\ UNCHANGED <<posts, comments, karma, now, following, followers, versions, inflight>>

\* The response of a getByPost request arrives (the try block of
\* fetchComments after its await, and finally)
FetchArrives(f) ==
    LET fetch == client.fetches[f]
        response == GetCommentsResponse(client.postId, fetch.sortBy, fetch.page,
                                        SectionPageLimit)
        newComments == LeanComments(response.comments, client.user)
        rest == [client EXCEPT !.fetches = Splice(@, f)]
        after == IF fetch.reset
                 THEN [rest EXCEPT !.comments = newComments, !.page = 1,
                                   !.hasMore = response.hasMore, !.isLoading = FALSE]
                 ELSE [rest EXCEPT !.comments = @ \o newComments,
                                   !.hasMore = response.hasMore, !.isLoading = FALSE]
    IN  /\ client' = Rendered(Effect(client, after), client.items)
        /\ UNCHANGED <<posts, comments, karma, now, following, followers, versions, inflight>>

\* A getByPost request fails (catch and finally of fetchComments)
FetchFails(f) ==
    /\ client' = [client EXCEPT !.fetches = Splice(@, f), !.isLoading = FALSE]
    /\ UNCHANGED <<posts, comments, karma, now, following, followers, versions, inflight>>

\* loadMore: setPage(prev => prev + 1); fetchComments() (the callback of
\* the render that showed the button); then the effect of the next render
LoadMore ==
    /\ client.mounted /\ client.comments # <<>>
    /\ client.hasMore /\ ~client.isLoading
    /\ client' = LET after == [FetchComments(client, FALSE, client.page)
                                 EXCEPT !.page = client.page + 1]
                 IN  Rendered(Effect(client, after), client.items)
    /\ UNCHANGED <<posts, comments, karma, now, following, followers, versions, inflight>>

\* The 'Show N replies' button of the CommentItem at a path is there.
ShowRepliesButton(path) ==
    /\ path \in DOMAIN client.items
    /\ CommentItemRendered(client.items[path].comment)
    /\ RepliesBlock(client.items[path])
    /\ ~client.items[path].showReplies

\* loadReplies up to its await: click on 'Show N replies'
LoadReplies(path) ==
    /\ ShowRepliesButton(path)
    /\ ~client.items[path].isLoadingReplies
    /\ client' = [client EXCEPT !.items[path].isLoadingReplies = TRUE]
    /\ UNCHANGED <<posts, comments, karma, now, following, followers, versions, inflight>>

\* loadReplies after its await: setReplies(response.data.replies);
\* setShowReplies(true); finally
RepliesArrive(path) ==
    LET response == GetRepliesResponse(client.items[path].comment._id, 0)
        items == [client.items EXCEPT
                     ![path].replies = LeanComments(response.replies, client.user),
                     ![path].showReplies = TRUE,
                     ![path].isLoadingReplies = FALSE]
    IN  /\ path \in DOMAIN client.items
        /\ client.items[path].isLoadingReplies
        /\ client' = Rendered(client, items)
        /\ UNCHANGED <<posts, comments, karma, now, following, followers, versions, inflight>>

\* loadReplies when getReplies fails: catch and finally
RepliesFail(path) ==
    /\ path \in DOMAIN client.items
    /\ client.items[path].isLoadingReplies
    /\ client' = [client EXCEPT !.items[path].isLoadingReplies = FALSE]
    /\ UNCHANGED <<posts, comments, karma, now, following, followers, versions, inflight>>

\* The optimistic update of handleVote: setUserVote and setVoteScore
\* before the request is sent
OptimisticVote(item, type) ==
    IF type = "up"
    THEN IF item.userVote = "up"
         THEN [item EXCEPT !.userVote = "none", !.voteScore = @ - 1]
         ELSE [item EXCEPT !.userVote = "up",
                           !.voteScore = @ + (IF item.userVote = "down" THEN 2 ELSE 1)]
    ELSE IF item.userVote = "down"
         THEN [item EXCEPT !.userVote = "none", !.voteScore = @ + 1]
         ELSE [item EXCEPT !.userVote = "down",
                           !.voteScore = @ - (IF item.userVote = "up" THEN 2 ELSE 1)]

\* handleVote(type) up to its await, of the CommentItem at a path: nothing
\* happens for a visitor or while isVoting; else the values are kept, the
\* optimistic update is made and commentsAPI.upvote / downvote is called
HandleVote(path, type) ==
    LET item == client.items[path]
        route == IF type = "up" THEN "upvoteComment" ELSE "downvoteComment"
    IN  /\ path \in DOMAIN client.items
        /\ CommentItemRendered(item.comment)
        /\ client.user # "none"
        /\ ~item.isVoting
        /\ client' = [client EXCEPT !.items[path] =
              [OptimisticVote(item, type) EXCEPT
                  !.isVoting = TRUE,
                  !.previousVote = item.userVote,
                  !.previousScore = item.voteScore,
                  !.voteRequest = Len(inflight) + 1]]
        /\ inflight' = Append(inflight, NewRequest(route, client.user, item.comment._id))
        /\ UNCHANGED <<posts, comments, karma, now, following, followers, versions>>

\* The request handleVote waits for was answered.
VoteAnswered(path) ==
    /\ path \in DOMAIN client.items
    /\ client.items[path].isVoting
    /\ inflight[client.items[path].voteRequest].pc = "done"

\* handleVote after its await: setVoteScore(response.data.voteScore);
\* setUserVote(...) from response.data.userVote; finally
VoteArrives(path) ==
    /\ VoteAnswered(path)
    /\ LET req == inflight[client.items[path].voteRequest]
           userVote == CommentHasVoted(req.doc, req.user)
       IN  /\ req.status = 200
           /\ client' = [client EXCEPT
                 !.items[path].voteScore = CommentVoteScore(req.doc),
                 !.items[path].userVote = IF userVote.upvoted THEN "up"
                                          ELSE IF userVote.downvoted THEN "down"
                                          ELSE "none",
                 !.items[path].isVoting = FALSE]
    /\ UNCHANGED <<posts, comments, karma, now, following, followers, versions, inflight>>

\* handleVote when the request is rejected (a 404 or 500 answer): catch,
\* which reverts, and finally
VoteFails(path) ==
    /\ VoteAnswered(path)
    /\ inflight[client.items[path].voteRequest].status # 200
    /\ client' = [client EXCEPT
          !.items[path].userVote = client.items[path].previousVote,
          !.items[path].voteScore = client.items[path].previousScore,
          !.items[path].isVoting = FALSE]
    /\ UNCHANGED <<posts, comments, karma, now, following, followers, versions, inflight>>

(* ------------------------ history variables --------------------------- *)

\* The requests of the scenario of section 8 of the specification, on the
\* first post: A upvotes, B downvotes, A downvotes, A downvotes.
ScenarioSteps ==
    << <<"A", "upvotePost">>, <<"B", "downvotePost">>,
       <<"A", "downvotePost">>, <<"A", "downvotePost">> >>

\* What the claims speak of over several requests, recorded with the request
\* just handled (route op by user on document id, answered res): the karma
\* each entity's votes gave its author, and the scores returned while the
\* last vote requests on the first post follow ScenarioSteps from empty
\* vote sets.
Observe(op, user, id, res) ==
    /\ postVoteKarma' =
         [i \in 1..Len(posts') |->
            (IF i <= Len(postVoteKarma) THEN postVoteKarma[i] ELSE 0)
            + (IF op \in {"upvotePost", "downvotePost"} /\ res.status = 200 /\ id = i
               THEN karma'[posts[i].author] - karma[posts[i].author] ELSE 0)]
    /\ commentVoteKarma' =
         [i \in 1..Len(comments') |->
            (IF i <= Len(commentVoteKarma) THEN commentVoteKarma[i] ELSE 0)
            + (IF op \in {"upvoteComment", "downvoteComment"} /\ res.status = 200 /\ id = i
               THEN karma'[comments[i].author] - karma[comments[i].author] ELSE 0)]
    /\ scenario' =
         LET n == Len(scenario)
         IN  IF ~(op \in {"upvotePost", "downvotePost"} /\ res.status = 200 /\ id = 1)
             THEN scenario
             ELSE IF n > 0 /\ n < Len(ScenarioSteps) /\ <<user, op>> = ScenarioSteps[n + 1]
             THEN Append(scenario, res.voteScore)
             ELSE IF /\ <<user, op>> = ScenarioSteps[1]
                     /\ posts[1].upvotes = <<>> /\ posts[1].downvotes = <<>>
             THEN <<res.voteScore>>
             ELSE <<>>

(* --------------------------- specifications --------------------------- *)

\* The ids a request names: those of the documents of the collection, and
\* one id of a document that does not exist.
PostIds == 1..(Len(posts) + 1)
CommentIds == 1..(Len(comments) + 1)

\* The content of the comments of the specifications that do not look at
\* content.
PlainContent == <<"h", "i">>

\* The step stays within the bound on the documents created.
Within(maxDocs) == Len(posts') + Len(comments') <= maxDocs

\* One request is handled at a time, start to end, and no page is open.
Sequential == UNCHANGED <<versions, inflight, client>>

\* Vote ledger and karma: sequential requests of every route that creates,
\* soft-deletes or votes on a post or a comment.
Next ==
    /\ Sequential
    /\ \/ \E u \in Users :
              CreatePost(u, PlainContent, PlainContent) /\ Observe("createPost", u, 0, CreatePostResponse(u, PlainContent, PlainContent))
       \/ \E u \in Users, p \in PostIds, c \in {0} \cup CommentIds :
              /\ CreateComment(u, p, PlainContent, c)
              /\ Observe("createComment", u, 0,
                         CreateCommentResponse(u, p, PlainContent, c))
       \/ \E u \in Users, p \in PostIds :
              DeletePost(u, p) /\ Observe("deletePost", u, p, DeletePostResponse(u, p))
       \/ \E u \in Users, c \in CommentIds :
              DeleteComment(u, c) /\ Observe("deleteComment", u, c, DeleteCommentResponse(u, c))
       \/ \E u \in Users, p \in PostIds :
              UpvotePost(u, p) /\ Observe("upvotePost", u, p, UpvotePostResponse(u, p))
       \/ \E u \in Users, p \in PostIds :
              DownvotePost(u, p) /\ Observe("downvotePost", u, p, DownvotePostResponse(u, p))
       \/ \E u \in Users, c \in CommentIds :
              UpvoteComment(u, c) /\ Observe("upvoteComment", u, c, UpvoteCommentResponse(u, c))
       \/ \E u \in Users, c \in CommentIds :
              /\ DownvoteComment(u, c)
              /\ Observe("downvoteComment", u, c, DownvoteCommentResponse(u, c))
    /\ Within(MaxVoteDocs)
    /\ \A u \in Users : karma'[u] <= MaxKarma

Spec == Init /\ [][Next]_vars

\* Comment tree: sequential requests of the routes that create and
\* soft-delete posts and comments and fetch the replies of a comment.
TreeNext ==
    /\ Sequential
    /\ \/ \E u \in Users :
              CreatePost(u, PlainContent, PlainContent) /\ Observe("createPost", u, 0, CreatePostResponse(u, PlainContent, PlainContent))
       \/ \E u \in Users, p \in PostIds, c \in {0} \cup CommentIds :
              /\ CreateComment(u, p, PlainContent, c)
              /\ Observe("createComment", u, 0,
                         CreateCommentResponse(u, p, PlainContent, c))
       \/ \E u \in Users, p \in PostIds :
              DeletePost(u, p) /\ Observe("deletePost", u, p, DeletePostResponse(u, p))
       \/ \E u \in Users, c \in CommentIds :
              DeleteComment(u, c) /\ Observe("deleteComment", u, c, DeleteCommentResponse(u, c))
       \/ \E c \in CommentIds, n \in 0..MaxLimit :
              GetRepliesRoute(c, n) /\ Observe("getReplies", "A", c, GetRepliesResponse(c, n))
    /\ Within(MaxDocs)

TreeSpec == Init /\ [][TreeNext]_vars

\* A string of n characters, none of them whitespace.
Fill(n) == SubSeq([i \in 1..n |-> "x"], 1, n)

\* The contents create requests carry: absent or empty, whitespace only,
\* padded text, the longest content allowed (padded), and one character
\* more.
CreateContents ==
    {<<>>, <<" ">>, <<" ", "a", " ">>,
     <<" ">> \o Fill(MaxContentLength), Fill(MaxContentLength + 1)}

\* The requests handled leave the history variables alone.
NoHistory == UNCHANGED <<postVoteKarma, commentVoteKarma, scenario>>

\* Comment creation: sequential requests that create and soft-delete posts
\* and create comments with contents of every kind.
CreateNext ==
    /\ Sequential
    /\ \/ \E u \in Users : CreatePost(u, PlainContent, PlainContent)
       \/ \E u \in Users, p \in PostIds, content \in CreateContents,
             c \in {0} \cup CommentIds :
              CreateComment(u, p, content, c)
       \/ \E u \in Users, p \in PostIds : DeletePost(u, p)
    /\ NoHistory
    /\ Within(MaxCreateDocs)

CreateSpec == Init /\ [][CreateNext]_vars

\* The contents edit requests carry: absent or empty, whitespace only,
\* padded text, and one character more than the longest content allowed.
EditContents ==
    {<<>>, <<" ">>, <<" ", "b", " ">>, Fill(MaxContentLength + 1)}

\* Comment editing: sequential requests of the routes that create, edit,
\* soft-delete and vote on the comments of a post.
EditNext ==
    /\ Sequential
    /\ \/ \E u \in Users : CreatePost(u, PlainContent, PlainContent)
       \/ \E u \in Users, p \in PostIds, c \in {0} \cup CommentIds :
              CreateComment(u, p, PlainContent, c)
       \/ \E u \in Users, c \in CommentIds, content \in EditContents :
              EditComment(u, c, content)
       \/ \E u \in Users, c \in CommentIds : DeleteComment(u, c)
       \/ \E u \in EditVoters, c \in CommentIds : UpvoteComment(u, c)
       \/ \E u \in EditVoters, c \in CommentIds : DownvoteComment(u, c)
    /\ NoHistory
    /\ Len(posts') <= 1
    /\ Len(comments') <= MaxEditComments
    /\ \A u \in Users : karma'[u] <= MaxEditKarma

EditSpec == Init /\ [][EditNext]_vars

\* The sortBy values requests carry (absent is top).
SortPolicies == {"top", "new"}

\* Comment listing: sequential requests that create posts and comments,
\* vote on comments, soft-delete them and list the comments of a post and
\* the replies of a comment.
ListNext ==
    /\ Sequential
    /\ \/ \E u \in Users : CreatePost(u, PlainContent, PlainContent)
       \/ \E u \in Users, p \in PostIds, c \in {0} \cup CommentIds :
              CreateComment(u, p, PlainContent, c)
       \/ \E u \in Users, c \in CommentIds : DeleteComment(u, c)
       \/ \E u \in Users, c \in CommentIds : UpvoteComment(u, c)
       \/ \E u \in Users, c \in CommentIds : DownvoteComment(u, c)
       \/ \E p \in PostIds, sortBy \in SortPolicies, page \in 0..MaxPage,
             limit \in 0..MaxLimit :
              GetComments(p, sortBy, page, limit)
       \/ \E c \in CommentIds, n \in 0..MaxLimit : GetRepliesRoute(c, n)
    /\ NoHistory
    /\ Within(MaxListDocs)
    /\ \A u \in Users : karma'[u] <= MaxListKarma

ListSpec == Init /\ [][ListNext]_vars

\* The users that log in.
TokenUsers == {"A"}

\* The tokens requests carry: none, and tokens that jwt.verify accepts or
\* rejects, naming a user or an id without a User document.
Tokens == {NoToken} \cup [signed : BOOLEAN, id : TokenUsers \cup {GhostUser}]

\* The requests: no Authorization header, a Bearer header with a token (or
\* with nothing after 'Bearer '), a header of another scheme; with and
\* without a token cookie.
Requests ==
    [authorization : {NoHeader}
                       \cup [scheme : {"Bearer"}, token : Tokens]
                       \cup [scheme : {"Basic"}, token : {[signed |-> TRUE, id |-> "A"]}],
     cookie : Tokens]

\* The titles update requests carry (absent, or a new title), and the
\* content comment edits carry.
EditTitles == {<<>>, <<"t">>}
EditedContent == <<"b">>

\* Authentication: sequential requests, with every kind of credentials, of
\* all the routes that change stored state. Each is registered as
\* router.METHOD(path, isAuthenticated, handler): the handler runs as
\* req.user only after isAuthenticated called next().
AuthRoutes(req) ==
    IF IsAuthenticated(req).status = 401
    THEN UNCHANGED <<posts, comments, karma, now, following, followers>>
    ELSE LET user == IsAuthenticated(req).user
         IN  \/ CreatePost(user, PlainContent, PlainContent)
             \/ \E p \in PostIds, title \in EditTitles :
                    EditPost(user, p, title, <<>>)
             \/ \E p \in PostIds : DeletePost(user, p)
             \/ \E p \in PostIds : UpvotePost(user, p)
             \/ \E p \in PostIds : DownvotePost(user, p)
             \/ \E p \in PostIds, c \in {0} \cup CommentIds :
                    CreateComment(user, p, PlainContent, c)
             \/ \E c \in CommentIds : EditComment(user, c, EditedContent)
             \/ \E c \in CommentIds : DeleteComment(user, c)
             \/ \E c \in CommentIds : UpvoteComment(user, c)
             \/ \E c \in CommentIds : DownvoteComment(user, c)
             \/ \E id \in Users \cup {GhostUser} : Follow(user, id)

\* The statuses the same requests are answered with.
AuthStatuses(req) ==
    IF IsAuthenticated(req).status = 401
    THEN {401}
    ELSE LET user == IsAuthenticated(req).user
         IN  {CreatePostResponse(user, PlainContent, PlainContent).status}
             \cup {EditPostResponse(user, p, title, <<>>).status :
                       p \in PostIds, title \in EditTitles}
             \cup {DeletePostResponse(user, p).status : p \in PostIds}
             \cup {UpvotePostResponse(user, p).status : p \in PostIds}
             \cup {DownvotePostResponse(user, p).status : p \in PostIds}
             \cup {CreateCommentResponse(user, p, PlainContent, c).status :
                       p \in PostIds, c \in {0} \cup CommentIds}
             \cup {EditCommentResponse(user, c, EditedContent).status : c \in CommentIds}
             \cup {DeleteCommentResponse(user, c).status : c \in CommentIds}
             \cup {UpvoteCommentResponse(user, c).status : c \in CommentIds}
             \cup {DownvoteCommentResponse(user, c).status : c \in CommentIds}
             \cup {FollowResponse(user, id).status : id \in Users \cup {GhostUser}}

AuthNext ==
    /\ Sequential
    /\ \E req \in Requests : AuthRoutes(req)
    /\ NoHistory
    /\ Within(MaxAuthDocs)
    /\ \A u \in Users : karma'[u] <= MaxAuthKarma

AuthSpec == Init /\ [][AuthNext]_vars

\* The steps of the handlers of the vote requests in progress.
VoteSteps ==
    \E r \in 1..Len(inflight) :
        \/ VoteFindById(r)
        \/ VoteSave(r)
        \/ VoteFindAuthor(r)
        \/ VoteSaveAuthor(r)

\* The steps of the handlers of the createComment requests in progress.
CreateSteps ==
    \E r \in 1..Len(inflight) :
        \/ CreateFindPost(r)
        \/ CreateFindParent(r)
        \/ CreateSaveComment(r)
        \/ CreateSavePost(r)
        \/ CreateFindParentAgain(r)
        \/ CreateAddReply(r)
        \/ CreatePopulate(r)
        \/ CreateIncKarma(r)

\* Concurrent requests: a post of A is created and voted on by requests
\* handled one at a time; then up to MaxRequests vote requests arrive and
\* their handlers interleave at their awaits.
RaceNext ==
    /\ \/ /\ inflight = <<>> /\ UNCHANGED <<versions, inflight>>
          /\ \/ posts = <<>> /\ CreatePost("A", PlainContent, PlainContent)
             \/ \E u \in Users, p \in 1..Len(posts) : UpvotePost(u, p)
             \/ \E u \in Users, p \in 1..Len(posts) : DownvotePost(u, p)
       \/ /\ Len(inflight) < MaxRequests
          /\ \E route \in {"upvotePost", "downvotePost"}, u \in Users, p \in 1..Len(posts) :
                StartVote(route, u, p)
       \/ /\ Len(inflight) < MaxRequests
          /\ \E p \in 1..Len(posts), c \in 0..Len(comments) :
                StartCreateComment("A", p, PlainContent, c)
       \/ VoteSteps
       \/ CreateSteps
    /\ UNCHANGED client
    /\ NoHistory
    /\ \A u \in Users : karma'[u] <= MaxRaceKarma

RaceSpec == Init /\ [][RaceNext]_vars

\* The contents the createComment requests of the fault specification
\* carry: absent, and a plain text.
FaultContents == {<<>>, PlainContent}

\* Storage faults: posts and comments are created by requests handled one
\* at a time; then createComment requests arrive one after the other, and
\* any awaited storage call of their handler may reject.
FaultNext ==
    /\ \/ /\ inflight = <<>> /\ UNCHANGED <<versions, inflight>>
          /\ \/ \E u \in Users : CreatePost(u, PlainContent, PlainContent)
             \/ \E u \in Users, p \in 1..Len(posts), c \in 0..Len(comments) :
                    CreateComment(u, p, PlainContent, c)
             \/ \E u \in Users, p \in 1..Len(posts) : DeletePost(u, p)
       \/ /\ Len(inflight) < MaxFaultRequests
          /\ \A r \in 1..Len(inflight) : inflight[r].pc = "done"
          /\ \E u \in Users, p \in PostIds, content \in FaultContents,
                c \in {0} \cup CommentIds :
                StartCreateComment(u, p, content, c)
       \/ CreateSteps
       \/ \E r \in 1..Len(inflight) : StorageFails(r)
    /\ UNCHANGED client
    /\ NoHistory
    /\ Within(MaxFaultDocs)

FaultSpec == Init /\ [][FaultNext]_vars

\* The CommentItems below the depth that starts expanded whose replies
\* were asked for.
Expanded ==
    {path \in DOMAIN client.items :
        /\ client.items[path].depth >= ShowRepliesDepth
        /\ client.items[path].showReplies \/ client.items[path].isLoadingReplies}

\* Threads on the page: A creates a post and comments on it (top-level, or
\* replies to the newest comment) and soft-deletes some; then the page of
\* the post is opened, the listing arrives and replies are expanded.
ThreadNext ==
    /\ \/ /\ ~client.mounted /\ UNCHANGED client
          /\ \/ posts = <<>> /\ CreatePost("A", PlainContent, PlainContent)
             \/ /\ Len(comments) < MaxThreadComments
                /\ \E c \in {0, Len(comments)} : CreateComment("A", 1, PlainContent, c)
             \/ \E c \in 1..Len(comments) : DeleteComment("A", c)
       \/ posts # <<>> /\ OpenPage("A", 1)
       \/ \E f \in 1..Len(client.fetches) : FetchArrives(f)
       \/ \E f \in 1..Len(client.fetches) : FetchFails(f)
       \/ /\ Cardinality(Expanded) < MaxExpands
          /\ \E path \in DOMAIN client.items : LoadReplies(path)
       \/ \E path \in DOMAIN client.items : RepliesArrive(path)
       \/ \E path \in DOMAIN client.items : RepliesFail(path)
    /\ UNCHANGED <<versions, inflight>>
    /\ NoHistory

ThreadSpec == Init /\ [][ThreadNext]_vars

\* Voting on the page: A creates a post, comments are written on it and
\* voted on by requests handled one at a time; then somebody opens the
\* page of the post and clicks the vote buttons of the comments, the
\* handlers of the requests run step by step and a storage call may reject.
VotingNext ==
    /\ \/ /\ ~client.mounted /\ UNCHANGED <<client, versions, inflight>>
          /\ \/ posts = <<>> /\ CreatePost("A", PlainContent, PlainContent)
             \/ /\ Len(comments) < MaxVotingComments
                /\ \E u \in Users : CreateComment(u, 1, PlainContent, 0)
             \/ \E u \in Users, c \in 1..Len(comments) : UpvoteComment(u, c)
             \/ \E u \in Users, c \in 1..Len(comments) : DownvoteComment(u, c)
       \/ posts # <<>> /\ \E u \in {"A", "none"} : OpenPage(u, 1)
       \/ \E f \in 1..Len(client.fetches) : FetchArrives(f)
       \/ \E f \in 1..Len(client.fetches) : FetchFails(f)
       \/ /\ Len(inflight) < MaxVotingRequests
          /\ \E path \in DOMAIN client.items, type \in {"up", "down"} :
                HandleVote(path, type)
       \/ VoteSteps /\ UNCHANGED client
       \/ (\E r \in 1..Len(inflight) : StorageFails(r)) /\ UNCHANGED client
       \/ \E path \in DOMAIN client.items : VoteArrives(path)
       \/ \E path \in DOMAIN client.items : VoteFails(path)
    /\ NoHistory
    /\ \A u \in Users : karma'[u] <= MaxVotingKarma

VotingSpec == Init /\ [][VotingNext]_vars

\* Pages of comments: A creates a post and top-level comments on it; then
\* A opens the page of the post, the listings arrive or fail, and 'Load
\* More Comments' is clicked.
SectionNext ==
    /\ \/ /\ ~client.mounted /\ UNCHANGED client
          /\ \/ posts = <<>> /\ CreatePost("A", PlainContent, PlainContent)
             \/ /\ posts # <<>> /\ Len(comments) < MaxSectionComments
                /\ CreateComment("A", 1, PlainContent, 0)
       \/ posts # <<>> /\ OpenPage("A", 1)
       \/ \E f \in 1..Len(client.fetches) : FetchArrives(f)
       \/ \E f \in 1..Len(client.fetches) : FetchFails(f)
       \/ /\ client.page < MaxLoadPage /\ Len(client.fetches) < MaxFetches
          /\ LoadMore
    /\ UNCHANGED <<versions, inflight>>
    /\ NoHistory

SectionSpec == Init /\ [][SectionNext]_vars

\* Following: the users follow and unfollow each other, themselves and a
\* user that does not exist, between requests that write and vote on
\* posts; every request is handled before the next arrives.
FollowNext ==
    /\ Sequential
    /\ \/ \E u \in Users, id \in Users \cup {GhostUser} : Follow(u, id)
       \/ \E u \in Users : CreatePost(u, PlainContent, PlainContent)
       \/ \E u \in Users, p \in 1..Len(posts) : UpvotePost(u, p)
       \/ \E u \in Users, p \in 1..Len(posts) : DownvotePost(u, p)
    /\ NoHistory
    /\ Within(MaxFollowDocs)
    /\ \A u \in Users : karma'[u] <= MaxFollowKarma

FollowSpec == Init /\ [][FollowNext]_vars

(* ===================== properties: vote ledger ======================== *)

InUp(doc, u) == \E i \in 1..Len(doc.upvotes) : doc.upvotes[i] = u
InDown(doc, u) == \E i \in 1..Len(doc.downvotes) : doc.downvotes[i] = u
Neutral(doc, u) == ~InUp(doc, u) /\ ~InDown(doc, u)
Score(doc) == Len(doc.upvotes) - Len(doc.downvotes)
VoteState(doc, u) == IF InUp(doc, u) THEN "up" ELSE IF InDown(doc, u) THEN "down" ELSE "none"
LivePosts == {p \in 1..Len(posts) : ~posts[p].isDeleted}
LiveComments == {c \in 1..Len(comments) : ~comments[c].isDeleted}

\* C1. Mutual exclusion of votes: after every completed upvote or downvote
\* request, by any voters in any order, no user id is in both the upvotes and
\* the downvotes of a post or of a comment.
C1_MutualExclusion ==
    /\ \A p \in 1..Len(posts), u \in Users : ~(InUp(posts[p], u) /\ InDown(posts[p], u))
    /\ \A c \in 1..Len(comments), u \in Users :
           ~(InUp(comments[c], u) /\ InDown(comments[c], u))

\* C1 witness: voters changed direction on a post and on a comment that
\* other voters voted on too (the scenario ran up to A's switch to a
\* downvote; on a comment one user is up, the other down).
C1_Witness ==
    /\ Len(scenario) = 3
    /\ \E c \in 1..Len(comments) :
           InUp(comments[c], "A") /\ InDown(comments[c], "B")

\* C2 (as claimed). Karma telescoping: the karma the votes on an entity gave
\* its author, since the entity's vote sets were empty, equals
\* |upvotes| - |downvotes| of the entity, after any sequence of vote requests.
C2_KarmaTelescoping ==
    /\ \A p \in 1..Len(posts) : postVoteKarma[p] = Score(posts[p])
    /\ \A c \in 1..Len(comments) : commentVoteKarma[c] = Score(comments[c])

\* The karma delta the claim C3 states for a vote in direction dir by a
\* voter whose vote was `was`.
ExpectedKarmaDelta(was, dir) ==
    CASE was = "none" /\ dir = "up" -> 1
      [] was = "none" /\ dir = "down" -> -1
      [] was = "up" /\ dir = "up" -> -1
      [] was = "down" /\ dir = "down" -> 1
      [] was = "down" /\ dir = "up" -> 2
      [] was = "up" /\ dir = "down" -> -2

\* The step adds d to the karma of user a and leaves every other karma.
KarmaMoved(a, d) == karma' = [karma EXCEPT ![a] = @ + d]

\* C3 (as claimed). Per-transition karma delta: a completed vote request
\* changes the karma of the content's author, and of nobody else, by +1 (new
\* upvote), -1 (new downvote), -1 (upvote retracted), +1 (downvote
\* retracted), +2 (down to up), -2 (up to down); on both routes, on posts and
\* on comments.
C3_PerTransitionKarma ==
    [][\A u \in Users :
         /\ \A p \in LivePosts :
              /\ UpvotePost(u, p) =>
                   KarmaMoved(posts[p].author,
                              ExpectedKarmaDelta(VoteState(posts[p], u), "up"))
              /\ DownvotePost(u, p) =>
                   KarmaMoved(posts[p].author,
                              ExpectedKarmaDelta(VoteState(posts[p], u), "down"))
         /\ \A c \in LiveComments :
              /\ UpvoteComment(u, c) =>
                   KarmaMoved(comments[c].author,
                              ExpectedKarmaDelta(VoteState(comments[c], u), "up"))
              /\ DownvoteComment(u, c) =>
                   KarmaMoved(comments[c].author,
                              ExpectedKarmaDelta(VoteState(comments[c], u), "down"))
      ]_vars

\* doc2 is doc after a round trip of voter u: u in neither set, same score.
RoundTrip(doc, doc2, u) == Neutral(doc2, u) /\ Score(doc2) = Score(doc)

\* C4. Double-toggle round trip: when a voter in neither vote set of an
\* entity votes (up or down), the same call made again right after it, on
\* the entity as the first call stored it, leaves the voter in neither set
\* and voteScore at its value before the first call.
C4_DoubleToggle ==
    [][\A u \in Users :
         /\ \A p \in LivePosts : Neutral(posts[p], u) =>
              /\ UpvotePost(u, p) =>
                   RoundTrip(posts[p], PostUpvote(posts'[p], u), u)
              /\ DownvotePost(u, p) =>
                   RoundTrip(posts[p], PostDownvote(posts'[p], u), u)
         /\ \A c \in LiveComments : Neutral(comments[c], u) =>
              /\ UpvoteComment(u, c) =>
                   RoundTrip(comments[c], CommentUpvote(comments'[c], u), u)
              /\ DownvoteComment(u, c) =>
                   RoundTrip(comments[c], CommentDownvote(comments'[c], u), u)
      ]_vars

\* C4 witness: first calls from the neutral state were made, on a post and
\* on a comment that carry another voter's vote: A's upvote of the scenario
\* next to B's downvote, and a comment with one voter up and the other down.
C4_Witness ==
    /\ Len(scenario) = 2
    /\ \E c \in 1..Len(comments) :
           InDown(comments[c], "A") /\ InUp(comments[c], "B")

\* Every voter but u is in the same vote sets of doc2 as of doc.
OthersKept(doc, doc2, u) ==
    \A v \in Users \ {u} :
        (InUp(doc2, v) <=> InUp(doc, v)) /\ (InDown(doc2, v) <=> InDown(doc, v))

\* C5. Direction switch: one upvote call by a voter in downvotes moves the
\* voter to upvotes only and raises voteScore by exactly 2; one downvote call
\* by a voter in upvotes moves the voter to downvotes only and lowers
\* voteScore by exactly 2; the memberships of all other voters are unchanged.
C5_DirectionSwitch ==
    [][\A u \in Users :
         /\ \A p \in LivePosts :
              /\ (InDown(posts[p], u) /\ UpvotePost(u, p)) =>
                   /\ InUp(posts'[p], u) /\ ~InDown(posts'[p], u)
                   /\ Score(posts'[p]) = Score(posts[p]) + 2
                   /\ OthersKept(posts[p], posts'[p], u)
              /\ (InUp(posts[p], u) /\ DownvotePost(u, p)) =>
                   /\ InDown(posts'[p], u) /\ ~InUp(posts'[p], u)
                   /\ Score(posts'[p]) = Score(posts[p]) - 2
                   /\ OthersKept(posts[p], posts'[p], u)
         /\ \A c \in LiveComments :
              /\ (InDown(comments[c], u) /\ UpvoteComment(u, c)) =>
                   /\ InUp(comments'[c], u) /\ ~InDown(comments'[c], u)
                   /\ Score(comments'[c]) = Score(comments[c]) + 2
                   /\ OthersKept(comments[c], comments'[c], u)
              /\ (InUp(comments[c], u) /\ DownvoteComment(u, c)) =>
                   /\ InDown(comments'[c], u) /\ ~InUp(comments'[c], u)
                   /\ Score(comments'[c]) = Score(comments[c]) - 2
                   /\ OthersKept(comments[c], comments'[c], u)
      ]_vars

\* C5 witness: a switch was made next to another voter's vote: the scenario
\* ran up to A's switch from up to down, B's downvote in place.
C5_Witness == Len(scenario) = 3 /\ InDown(posts[1], "B") /\ InDown(posts[1], "A")

\* The voteScore values the scenario of section 8 states.
ScenarioScores == <<1, 0, -2, -1>>

\* C6. Scenario trace on a post with empty vote sets: A upvotes, B
\* downvotes, A downvotes (a switch), A downvotes again (a retraction); the
\* voteScore each request returns is 1, 0, -2, -1.
C6_ScenarioTrace ==
    \A i \in 1..Len(scenario) : scenario[i] = ScenarioScores[i]

\* C6 witness: the four requests of the scenario were made and answered.
C6_Witness == Len(scenario) = 4

\* The response res of a successful vote by u, on the document stored as
\* doc2: its voteScore and userVote are those of doc2, userVote is never
\* up and down at once, and is neither exactly when the call retracted.
VoteResponseOK(res, doc2, u, retracted) ==
    /\ res.status = 200
    /\ res.voteScore = Len(doc2.upvotes) - Len(doc2.downvotes)
    /\ res.userVote.upvoted = InUp(doc2, u)
    /\ res.userVote.downvoted = InDown(doc2, u)
    /\ ~(res.userVote.upvoted /\ res.userVote.downvoted)
    /\ (~res.userVote.upvoted /\ ~res.userVote.downvoted) <=> retracted

\* C7. Vote response: every successful vote request returns voteScore equal
\* to |upvotes| - |downvotes| of the entity as stored after the call and
\* userVote equal to the voter's membership in the two sets after the call;
\* upvoted and downvoted are never both true, and both are false exactly
\* when the call was a retraction.
C7_VoteResponse ==
    [][\A u \in Users :
         /\ \A p \in LivePosts :
              /\ UpvotePost(u, p) =>
                   VoteResponseOK(UpvotePostResponse(u, p), posts'[p], u, InUp(posts[p], u))
              /\ DownvotePost(u, p) =>
                   VoteResponseOK(DownvotePostResponse(u, p), posts'[p], u,
                                  InDown(posts[p], u))
         /\ \A c \in LiveComments :
              /\ UpvoteComment(u, c) =>
                   VoteResponseOK(UpvoteCommentResponse(u, c), comments'[c], u,
                                  InUp(comments[c], u))
              /\ DownvoteComment(u, c) =>
                   VoteResponseOK(DownvoteCommentResponse(u, c), comments'[c], u,
                                  InDown(comments[c], u))
      ]_vars

\* C7 witness: vote requests were answered, a retraction among them (the
\* scenario ran to its end), and a comment was voted on.
C7_Witness ==
    /\ Len(scenario) = 4
    /\ \E c \in 1..Len(comments) : InUp(comments[c], "B")

\* The documents of the store and every user's karma are as before the step.
StoreUnchanged == UNCHANGED <<posts, comments, karma, following, followers>>

\* C8. A vote request (up or down) on a post or comment that does not exist
\* or is soft-deleted is answered 404 and changes nothing: the vote sets of
\* every entity and the karma of every user stay as they were.
C8_VoteNotFound ==
    /\ [](\A u \in Users :
            /\ \A p \in PostIds \ LivePosts :
                 /\ UpvotePostResponse(u, p) = [status |-> 404]
                 /\ DownvotePostResponse(u, p) = [status |-> 404]
            /\ \A c \in CommentIds \ LiveComments :
                 /\ UpvoteCommentResponse(u, c) = [status |-> 404]
                 /\ DownvoteCommentResponse(u, c) = [status |-> 404])
    /\ [][\A u \in Users :
            /\ \A p \in PostIds \ LivePosts :
                 (UpvotePost(u, p) \/ DownvotePost(u, p)) => StoreUnchanged
            /\ \A c \in CommentIds \ LiveComments :
                 (UpvoteComment(u, c) \/ DownvoteComment(u, c)) => StoreUnchanged
         ]_vars

\* C8 witness: a soft-deleted post and a soft-deleted comment that carry
\* votes, and ids of a post and of a comment that do not exist.
C8_Witness ==
    /\ \E p \in 1..Len(posts) : posts[p].isDeleted /\ posts[p].upvotes # <<>>
    /\ \E c \in 1..Len(comments) : comments[c].isDeleted /\ comments[c].downvotes # <<>>

(* ===================== properties: comment tree ======================= *)

\* The number of times id r occurs in the list arr.
Occurrences(arr, r) == Cardinality({i \in 1..Len(arr) : arr[i] = r})

\* The comments of the list arr that are not soft-deleted, in its order.
NotDeletedOf(arr) ==
    LET NotDeleted(r) == ~comments[r].isDeleted
    IN  SelectSeq(arr, NotDeleted)

\* The limit GET /:commentId/replies applies for the query value limit.
EffectiveLimit(limit) == IF limit = 0 THEN DefaultRepliesLimit ELSE limit

\* C9. A reply created with parentCommentId = X occurs exactly once in
\* X.replies, after all replies created earlier, and getReplies(X, limit)
\* returns X's replies (those not soft-deleted, at most limit of them) in
\* ascending creation order; replies 2 then 3 created under comment 1 give
\* getReplies(1, 10) = <<2, 3>>.
C9_RepliesInCreationOrder ==
    /\ \A x \in 1..Len(comments) :
         /\ \A r \in 1..Len(comments) :
                comments[r].parentComment = x => Occurrences(comments[x].replies, r) = 1
         /\ \A i, j \in 1..Len(comments[x].replies) :
                i < j => comments[comments[x].replies[i]].createdAt
                           < comments[comments[x].replies[j]].createdAt
         /\ \A limit \in 0..MaxLimit :
                GetRepliesResponse(x, limit).replies
                  = Limit(NotDeletedOf(comments[x].replies), EffectiveLimit(limit))
    /\ (/\ Len(comments) >= 3
        /\ comments[1].replies = <<2, 3>>
        /\ ~comments[2].isDeleted /\ ~comments[3].isDeleted)
       => GetReplies(1, 10) = <<2, 3>>

\* C9 witness: comment 1 got the replies 2 and 3, in that order, and both
\* are there to fetch.
C9_Witness ==
    /\ Len(comments) >= 3
    /\ comments[1].replies = <<2, 3>>
    /\ ~comments[2].isDeleted /\ ~comments[3].isDeleted

\* C10 (as claimed). createComment with a parentCommentId succeeds only if
\* the parent comment exists, is not soft-deleted and belongs to the post
\* postId; otherwise it answers 404 and creates nothing, so every stored
\* reply has the same post as its parent.
C10_ParentChecked ==
    /\ [](\A r \in 1..Len(comments) :
            comments[r].parentComment # 0 =>
                comments[comments[r].parentComment].post = comments[r].post)
    /\ [][\A u \in Users, p \in PostIds, c \in CommentIds :
            (/\ CreateComment(u, p, PlainContent, c)
             /\ ~(c \in LiveComments /\ comments[c].post = p))
            => (CreateCommentResponse(u, p, PlainContent, c).status = 404
                /\ StoreUnchanged)
         ]_vars

(* ================== properties: creating comments ===================== *)

\* The number of characters of content once trimmed.
TrimmedLength(content) == Len(Trim(content))

\* The trimmed content has fewer than 1 or more than 5000 characters.
ContentInvalid(content) == TrimmedLength(content) < 1 \/ TrimmedLength(content) > 5000

\* C11. createComment answers 400 when the trimmed content is shorter than
\* 1 or longer than 5000 characters, and 404 when (the content being valid)
\* the post is missing or soft-deleted; in both cases no comment is stored,
\* post.comments is unchanged and every karma is unchanged (a step that
\* changes the store is the step of no rejected request).
C11_CreateRejected ==
    /\ [](\A u \in Users, p \in PostIds, content \in CreateContents,
             c \in {0} \cup CommentIds :
            /\ ContentInvalid(content) =>
                 CreateCommentResponse(u, p, content, c) = [status |-> 400]
            /\ (~ContentInvalid(content) /\ p \notin LivePosts) =>
                 CreateCommentResponse(u, p, content, c) = [status |-> 404])
    /\ [][\/ StoreUnchanged
          \/ \A content \in CreateContents, p \in PostIds :
                (ContentInvalid(content) \/ p \notin LivePosts) =>
                    \A u \in Users, c \in {0} \cup CommentIds :
                        ~CreateComment(u, p, content, c)
         ]_vars

\* C11 witness: a soft-deleted post that has a comment, next to a post that
\* takes comments: requests of every rejected kind can be made.
C11_Witness ==
    /\ \E p \in 1..Len(posts) : posts[p].isDeleted /\ posts[p].comments # <<>>
    /\ LivePosts # {}

(* ================== properties: authorship bonus ====================== *)

\* The sum of the numbers of the sequence seq taken at the positions of S.
RECURSIVE SumAt(_, _)
SumAt(seq, S) ==
    IF S = {} THEN 0
    ELSE LET i == CHOOSE i \in S : TRUE IN seq[i] + SumAt(seq, S \ {i})

PostsBy(u) == {p \in 1..Len(posts) : posts[p].author = u}
CommentsBy(u) == {c \in 1..Len(comments) : comments[c].author = u}

\* C12. Authorship bonus: every successful creation of a post or comment
\* raises its author's karma by exactly 1, once per content item (a user's
\* karma is the number of posts and comments the user created, deleted ones
\* included, plus what votes on them gave), and a soft delete of a post or
\* comment leaves every karma unchanged.
C12_AuthorshipBonus ==
    /\ [](\A u \in Users :
            karma[u] = Cardinality(PostsBy(u)) + Cardinality(CommentsBy(u))
                       + SumAt(postVoteKarma, PostsBy(u))
                       + SumAt(commentVoteKarma, CommentsBy(u)))
    /\ [][\A u \in Users :
            /\ CreatePost(u, PlainContent, PlainContent) => KarmaMoved(u, 1)
            /\ \A p \in PostIds, c \in {0} \cup CommentIds :
                 (CreateComment(u, p, PlainContent, c) /\ Len(comments') = Len(comments) + 1)
                 => KarmaMoved(u, 1)
            /\ \A p \in LivePosts : DeletePost(u, p) => UNCHANGED karma
            /\ \A c \in LiveComments : DeleteComment(u, c) => UNCHANGED karma
         ]_vars

\* C12 witness: a post and a comment were created and then soft-deleted, and
\* their authors still have the karma of the creation.
C12_Witness ==
    /\ \E p \in 1..Len(posts) : posts[p].isDeleted /\ karma[posts[p].author] >= 1
    /\ \E c \in 1..Len(comments) : comments[c].isDeleted /\ karma[comments[c].author] >= 1

(* ==================== properties: soft delete ========================= *)

\* The comment c is soft-deleted by the step.
Deleted(c) == ~comments[c].isDeleted /\ comments'[c].isDeleted

C14_RepliesSurviveDelete ==
    [][\A u \in Users, x \in LiveComments :
         (DeleteComment(u, x) /\ Deleted(x)) =>
            /\ \A r \in 1..Len(comments) :
                   comments[r].parentComment = x => comments'[r].parentComment = x
            /\ \A limit \in 0..MaxLimit :
                   GetRepliesResponse(x, limit)' = GetRepliesResponse(x, limit)
      ]_vars

\* C14 witness: a soft-deleted comment with two replies, one of them still
\* to be fetched.
C14_Witness ==
    \E x \in 1..Len(comments) :
        /\ comments[x].isDeleted
        /\ Len(comments[x].replies) = 2
        /\ GetReplies(x, DefaultRepliesLimit) # <<>>

(* ======================= properties: edit ============================= *)

\* User u is the author of comment c or an admin.
MayChange(u, c) == comments[c].author = u \/ u \in Admins

\* Every field of comment c but content, isEdited and editedAt is
\* unchanged by the step, and so are the other comments, the posts and the
\* karma.
EditFrame(c) ==
    /\ comments'[c].upvotes = comments[c].upvotes
    /\ comments'[c].downvotes = comments[c].downvotes
    /\ comments'[c].replies = comments[c].replies
    /\ comments'[c].parentComment = comments[c].parentComment
    /\ comments'[c].author = comments[c].author
    /\ comments'[c].post = comments[c].post
    /\ comments'[c].isDeleted = comments[c].isDeleted
    /\ comments'[c].createdAt = comments[c].createdAt
    /\ Len(comments') = Len(comments)
    /\ \A d \in 1..Len(comments) : d # c => comments'[d] = comments[d]
    /\ posts' = posts
    /\ karma' = karma

\* Requests on a missing or soft-deleted comment are answered 404.
EditNotFound ==
    \A u \in Users, c \in CommentIds \ LiveComments, content \in EditContents :
        EditCommentResponse(u, c, content) = [status |-> 404]

\* C15 (as claimed). editComment on an existing, non-deleted comment (by its
\* author or an admin) replaces content with the new content, sets isEdited
\* and editedAt and leaves the vote sets, replies, parentComment, author,
\* post and isDeleted unchanged; on a missing or soft-deleted comment it
\* answers 404 and changes nothing.
C15_EditAsClaimed ==
    /\ []EditNotFound
    /\ [][\A u \in Users, c \in CommentIds, content \in EditContents :
            (~UNCHANGED vars /\ EditComment(u, c, content)) =>
              IF c \in LiveComments
              THEN MayChange(u, c) =>
                     /\ comments'[c].content = content
                     /\ comments'[c].isEdited = TRUE
                     /\ comments'[c].editedAt = now
                     /\ EditFrame(c)
              ELSE StoreUnchanged
         ]_vars

\* The trimmed content is one the edit route and the schema accept.
EditAccepted(content) == TrimmedLength(content) >= 1 /\ TrimmedLength(content) <= 5000

\* C15 (amended). editComment by the author or an admin on an existing,
\* non-deleted comment, with a content whose trimmed form has 1 to 5000
\* characters, replaces content with the trimmed new content, sets isEdited
\* and editedAt and leaves the vote sets, replies, parentComment, author,
\* post and isDeleted unchanged; a blank content is answered 400 and a longer
\* one 500, a missing or soft-deleted comment 404, and these change nothing.
C15_EditFrame ==
    /\ [](/\ EditNotFound
          /\ \A u \in Users, c \in LiveComments, content \in EditContents :
                MayChange(u, c) =>
                    EditCommentResponse(u, c, content).status =
                        IF TrimmedLength(content) < 1 THEN 400
                        ELSE IF TrimmedLength(content) > 5000 THEN 500 ELSE 200)
    /\ [][\A u \in Users, c \in CommentIds, content \in EditContents :
            (~UNCHANGED vars /\ EditComment(u, c, content)) =>
              IF c \in LiveComments /\ MayChange(u, c) /\ EditAccepted(content)
              THEN /\ comments'[c].content = Trim(content)
                   /\ comments'[c].isEdited = TRUE
                   /\ comments'[c].editedAt = now
                   /\ EditFrame(c)
              ELSE StoreUnchanged
         ]_vars

\* C15 witness: an edited comment that carries a vote and has a reply, next
\* to a soft-deleted comment.
C15_Witness ==
    /\ \E c \in 1..Len(comments) :
          /\ comments[c].isEdited /\ comments[c].content = <<"b">>
          /\ comments[c].replies # <<>>
          /\ comments[c].upvotes # <<>> \/ comments[c].downvotes # <<>>
    /\ \E c \in 1..Len(comments) : comments[c].isDeleted

(* =================== properties: authorization ======================== *)

\* C16. An edit or delete request on a comment by a user who is neither the
\* comment's author nor an admin is answered 403 and leaves the comment (and
\* the rest of the store) unchanged; a step that changes the content or the
\* isDeleted flag of a comment is an edit or delete request of the comment's
\* author or of an admin.
C16_AuthorOrAdminOnly ==
    /\ [](\A u \in Users, c \in LiveComments :
            ~MayChange(u, c) =>
               /\ DeleteCommentResponse(u, c) = [status |-> 403]
               /\ \A content \in EditContents :
                      EditCommentResponse(u, c, content) = [status |-> 403])
    /\ [][\A c \in 1..Len(comments) :
            /\ \A u \in Users :
                 (/\ ~MayChange(u, c)
                  /\ \/ DeleteComment(u, c)
                     \/ \E content \in EditContents : EditComment(u, c, content))
                 => StoreUnchanged
            /\ (\/ comments'[c].content # comments[c].content
                \/ comments'[c].isDeleted # comments[c].isDeleted)
               => \E u \in Users :
                      /\ MayChange(u, c)
                      /\ \/ DeleteComment(u, c)
                         \/ \E content \in EditContents : EditComment(u, c, content)
         ]_vars

\* C16 witness: a comment of B that A may not change, edited (by B), and a
\* comment of A that was soft-deleted.
C16_Witness ==
    /\ \E c \in LiveComments :
          comments[c].author = "B" /\ ~MayChange("A", c) /\ comments[c].isEdited
    /\ \E c \in 1..Len(comments) : comments[c].author = "A" /\ comments[c].isDeleted

(* ====================== properties: listing =========================== *)

\* The top-level comments of post p that are not soft-deleted.
TopLevelOf(p) ==
    {c \in 1..Len(comments) :
        comments[c].post = p /\ comments[c].parentComment = 0 /\ ~comments[c].isDeleted}

\* The list arr holds exactly the ids of S, each once.
ListsExactly(arr, S) ==
    /\ {arr[i] : i \in 1..Len(arr)} = S
    /\ Len(arr) = Cardinality(S)

\* Comment c comes before comment d under policy top: higher net vote
\* score, or the same score and created later.
TopBefore(c, d) ==
    \/ Score(comments[c]) > Score(comments[d])
    \/ /\ Score(comments[c]) = Score(comments[d])
       /\ comments[c].createdAt > comments[d].createdAt

\* C17 (as claimed). getTopLevelComments with policy top returns the post's
\* non-deleted top-level comments ordered by descending net vote score
\* (|upvotes| - |downvotes|), ties broken newest-first; with policy new it
\* returns them in descending creation time.
C17_TopLevelOrder ==
    \A p \in 1..Len(posts) :
        LET top == GetCommentsResponse(p, "top", 0, 0).comments
            new == GetCommentsResponse(p, "new", 0, 0).comments
            static == GetTopLevel(p, DefaultCommentsLimit, 0)
        IN  /\ ListsExactly(top, TopLevelOf(p))
            /\ ListsExactly(new, TopLevelOf(p))
            /\ \A i, j \in 1..Len(top) : i < j => TopBefore(top[i], top[j])
            /\ \A i, j \in 1..Len(static) : i < j => TopBefore(static[i], static[j])
            /\ \A i, j \in 1..Len(new) :
                   i < j => comments[new[i]].createdAt > comments[new[j]].createdAt

\* The retrieval operations deliver comment c to the client: the listing of
\* its post when c is top-level, getReplies of its parent when c is a reply.
Delivered(c) ==
    IF comments[c].parentComment = 0
    THEN Includes(GetCommentsResponse(comments[c].post, "top", 0, 0).comments, c)
    ELSE Includes(GetRepliesResponse(comments[c].parentComment, 0).replies, c)

\* C18 (as claimed). A soft-deleted comment is shown in the thread if and
\* only if it has at least one reply: a deleted comment with replies is
\* delivered by the retrieval operations and rendered (as the '[deleted]'
\* placeholder), and a deleted comment with no replies is not rendered.
C18_DeletedShownIffReplies ==
    \A c \in 1..Len(comments) :
        (comments[c].isDeleted /\ ~posts[comments[c].post].isDeleted) =>
            /\ comments[c].content = <<"[", "d", "e", "l", "e", "t", "e", "d", "]">>
            /\ (Delivered(c) /\ CommentItemRendered(comments[c]))
                 <=> (comments[c].replies # <<>>)

(* ==================== properties: authentication ====================== *)

\* The token a request presents: its bearer token, else its token cookie.
Credential(req) ==
    IF req.authorization.scheme = "Bearer" /\ req.authorization.token # NoToken
    THEN req.authorization.token
    ELSE req.cookie

\* A request with no token, with an invalid token, or with a token whose
\* user does not exist.
Unauthenticated(req) ==
    \/ Credential(req) = NoToken
    \/ ~Credential(req).signed
    \/ Credential(req).id \notin Users

\* C19. A request of a state-changing route (create, edit, delete, upvote,
\* downvote of posts and comments, follow) that carries no token, an
\* invalid token, or a token whose user does not exist is answered 401 and
\* changes no stored state.
C19_Unauthenticated401 ==
    /\ [](\A req \in Requests :
             Unauthenticated(req) => AuthStatuses(req) = {401})
    /\ [][StoreUnchanged
            \/ \A req \in Requests : Unauthenticated(req) => ~AuthRoutes(req)]_vars

\* A has a live post with a live comment and follows B, and a request with
\* an invalid bearer token and A's valid token in the cookie is answered
\* 401 by the routes that answer A's requests 200.
C19_Witness ==
    /\ Len(posts) >= 1 /\ Len(comments) >= 1
    /\ posts[1].author = "A" /\ ~posts[1].isDeleted
    /\ comments[1].author = "A" /\ ~comments[1].isDeleted
    /\ Includes(following["A"], "B")
    /\ LET valid == [signed |-> TRUE, id |-> "A"]
           forged == [signed |-> FALSE, id |-> "A"]
           bad == [authorization |-> [scheme |-> "Bearer", token |-> forged],
                   cookie |-> valid]
           good == [authorization |-> NoHeader, cookie |-> valid]
       IN  /\ bad \in Requests /\ good \in Requests
           /\ Unauthenticated(bad)
           /\ AuthStatuses(bad) = {401}
           /\ IsAuthenticated(good).user = "A"
           /\ DeletePostResponse("A", 1).status = 200
           /\ DeleteCommentResponse("A", 1).status = 200
           /\ FollowResponse("A", "B").status = 200
           /\ 200 \in AuthStatuses(good)

(* ====================== properties: linkage =========================== *)

Ids(arr) == {arr[i] : i \in 1..Len(arr)}

\* The vote sets of a document.
VoteSets(doc) == [up |-> Ids(doc.upvotes), down |-> Ids(doc.downvotes)]

\* Requests r1 and r2 are completed vote requests by different voters on
\* the same entity, each loaded the entity before the other saved, and no
\* other request touched the entity.
VotesInterleaved(r1, r2) ==
    /\ r1 # r2
    /\ inflight[r1].route \in VoteRoutes /\ inflight[r2].route \in VoteRoutes
    /\ KindOf(inflight[r1].route) = KindOf(inflight[r2].route)
    /\ inflight[r1].id = inflight[r2].id
    /\ inflight[r1].user # inflight[r2].user
    /\ inflight[r1].pc = "done" /\ inflight[r2].pc = "done"
    /\ inflight[r1].status # 404 /\ inflight[r2].status # 404
    /\ inflight[r1].ver < inflight[r2].savedVer
    /\ inflight[r2].ver < inflight[r1].savedVer
    /\ \A r \in 1..Len(inflight) :
          (KindOf(inflight[r].route) = KindOf(inflight[r1].route)
             /\ inflight[r].id = inflight[r1].id) => r \in {r1, r2}

\* The entity after the toggles of r1 and then r2, one after the other.
Serial(r1, r2) ==
    VoteMethod(inflight[r2].route,
               VoteMethod(inflight[r1].route, inflight[r1].loaded, inflight[r1].user),
               inflight[r2].user)

\* C21 (as claimed). When two vote requests by different voters on the
\* same entity interleave, the stored vote sets after both complete equal
\* the result of the two toggles in some serial order: no toggle is lost.
C21_NoLostToggle ==
    \A r1, r2 \in 1..Len(inflight) :
        VotesInterleaved(r1, r2) =>
            LET stored == VoteSets(StoredDoc(KindOf(inflight[r1].route), inflight[r1].id))
            IN  \/ stored = VoteSets(Serial(r1, r2))
                \/ stored = VoteSets(Serial(r2, r1))

\* The karma request r added to user u, as its handler computed it: the
\* voteDiff of an upvote route, the bonus of a created comment.
KarmaDelta(r, u) ==
    LET req == inflight[r]
    IN  IF req.route \in {"upvotePost", "upvoteComment"} /\ req.status = 200
           /\ req.doc.author = u
        THEN req.voteDiff
        ELSE IF req.route = "createComment" /\ req.status = 201 /\ req.user = u
        THEN 1
        ELSE 0

RECURSIVE SumKarmaDeltas(_, _)
SumKarmaDeltas(n, u) ==
    IF n = 0 THEN 0 ELSE KarmaDelta(n, u) + SumKarmaDeltas(n - 1, u)

\* C22 (as claimed). When requests that change the same author's karma
\* interleave (upvotes of the author's content, a content-creation bonus),
\* then once they are all completed the author's karma is the karma from
\* before the first of them plus the sum of the deltas of the requests.
C22_KarmaMovesWithVotes ==
    (inflight # <<>> /\ \A r \in 1..Len(inflight) : inflight[r].pc = "done") =>
        \A u \in Users :
            karma[u] = inflight[1].before.karma[u] + SumKarmaDeltas(Len(inflight), u)

(* =================== properties: error handling ======================= *)

\* C26 (as claimed). createComment is all-or-nothing: if POST /comments
\* answers with an error status (400, 404 or 500, including a failure of
\* any of its write steps), then no new comment is stored, post.comments
\* and the parent's replies are unchanged and the author's karma is
\* unchanged.
C26_CreateAllOrNothing ==
    \A r \in 1..Len(inflight) :
        LET req == inflight[r]
        IN  (/\ r = Len(inflight)
             /\ req.route = "createComment"
             /\ req.pc = "done"
             /\ req.status \in {400, 404, 500}) =>
                /\ comments = req.before.comments
                /\ posts = req.before.posts
                /\ karma = req.before.karma

(* ===================== properties: the thread ========================= *)

\* The CommentItems rendered as children of the one at a path.
ChildrenIn(items, path) ==
    {child \in DOMAIN items :
        Len(child) = Len(path) + 1 /\ SubSeq(child, 1, Len(path)) = path}

ChildrenOf(path) == ChildrenIn(client.items, path)

\* C23. No CommentItem is rendered at a depth greater than maxDepth
\* (default 6), and a CommentItem at depth = maxDepth renders no children:
\* whatever the reply data (a comment rendered under itself included),
\* rendering ends after at most maxDepth + 1 nested levels.
C23_DepthBound ==
    \A path \in DOMAIN client.items :
        /\ client.items[path].depth = Len(path) - 1
        /\ client.items[path].depth <= DefaultMaxDepth
        /\ Len(path) <= DefaultMaxDepth + 1
        /\ client.items[path].depth = DefaultMaxDepth => ChildrenOf(path) = {}

\* A CommentItem at depth maxDepth whose comment has replies, at the end
\* of a path on which a comment is rendered under itself.
C23_Witness ==
    \E path \in DOMAIN client.items :
        /\ client.items[path].depth = DefaultMaxDepth
        /\ client.items[path].comment.replies # <<>>
        /\ \E i \in 1..(Len(path) - 1) :
              client.items[SubSeq(path, 1, i)].comment._id
                = client.items[SubSeq(path, 1, i + 1)].comment._id

\* C24 (as claimed). At every depth, a comment whose replies were not
\* fetched for it by getReplies is displayed collapsed; its replies are
\* displayed only after an explicit expand action whose getReplies call
\* succeeded: CommentItems appear under a CommentItem only in the step in
\* which the replies asked for by its 'Show N replies' button arrive.
C24_LazyExpansion ==
    [][\A path \in DOMAIN client'.items :
          (/\ ChildrenIn(client'.items, path) # {}
           /\ ChildrenIn(client.items, path) = {}) => RepliesArrive(path)]_vars

\* C25 (as claimed). Every CommentItem rendered as a child under the
\* CommentItem of a comment C displays a comment whose parentComment is C,
\* never C itself nor an unrelated comment, also while the ids of C.replies
\* were not fetched and when getReplies left some of them out.
C25_ChildrenAreReplies ==
    \A path \in DOMAIN client.items :
        \A child \in ChildrenOf(path) :
            /\ client.items[child].comment.parentComment
                 = client.items[path].comment._id
            /\ client.items[child].comment._id # client.items[path].comment._id

(* ================== properties: the vote buttons ====================== *)

\* The step is the click of handleVote on the CommentItem at a path.
Clicked(path) ==
    /\ path \in DOMAIN client.items /\ path \in DOMAIN client'.items
    /\ ~client.items[path].isVoting /\ client'.items[path].isVoting

\* The step ends handleVote on the CommentItem at a path.
Settled(path) ==
    /\ path \in DOMAIN client.items /\ path \in DOMAIN client'.items
    /\ client.items[path].isVoting /\ ~client'.items[path].isVoting

\* The click on a CommentItem whose userVote is the stored vote of the
\* user changes userVote and voteScore as the vote method of the request
\* changes the stored comment.
OptimisticMatchesToggle(path) ==
    LET item == client.items[path]
        req == inflight'[client'.items[path].voteRequest]
        stored == comments[item.comment._id]
        voted == VoteMethod(req.route, stored, req.user)
    IN  (Clicked(path) /\ VoteState(stored, req.user) = item.userVote)
          => /\ client'.items[path].userVote = VoteState(voted, req.user)
             /\ client'.items[path].voteScore - item.voteScore
                  = Score(voted) - Score(stored)

\* The response of a request that succeeded leaves what is displayed as
\* the click left it.
ResponseChangesNothing(path) ==
    (Settled(path) /\ inflight[client.items[path].voteRequest].status = 200)
      => /\ client'.items[path].userVote = client.items[path].userVote
         /\ client'.items[path].voteScore = client.items[path].voteScore

\* C27 (as claimed). For every userVote in {none, up, down} and every click
\* in {up, down}, the userVote and the change of voteScore that handleVote
\* applies before the response are those of the server's upvote / downvote
\* on a comment where the stored vote of the voter is userVote, and with no
\* other voter acting in between the response of the server leaves the
\* displayed values unchanged.
C27_OptimisticAgreesWithServer ==
    [][\A path \in DOMAIN client.items :
          OptimisticMatchesToggle(path) /\ ResponseChangesNothing(path)]_vars

\* handleVote keeps the values of before the click while it waits, a
\* request that fails puts them back and ends isVoting, and a component
\* that waits sends no other vote request.
RevertsToBeforeClick(path) ==
    LET item == client.items[path]
        after == client'.items[path]
    IN  /\ Clicked(path) => /\ after.previousVote = item.userVote
                            /\ after.previousScore = item.voteScore
        /\ (path \in DOMAIN client'.items /\ item.isVoting)
             => /\ after.previousVote = item.previousVote
                /\ after.previousScore = item.previousScore
                /\ \A r \in (Len(inflight) + 1)..Len(inflight') :
                      inflight'[r].id # item.comment._id
        /\ (Settled(path) /\ inflight[item.voteRequest].status # 200)
             => /\ after.userVote = item.previousVote
                /\ after.voteScore = item.previousScore

\* The userVote a failed request leaves on display is the vote of the
\* user that is stored.
RevertedIsStored(path) ==
    (Settled(path) /\ inflight[client.items[path].voteRequest].status # 200)
      => client'.items[path].userVote
           = VoteState(comments'[client.items[path].comment._id], client.user)

\* C28 (as claimed). When a vote request fails, after handleVote finishes
\* userVote and voteScore are what they were just before the click and
\* isVoting is false; while isVoting is true the component sends no second
\* vote request; and the reverted values are the vote state stored on the
\* server for that voter.
C28_FailedVoteReverts ==
    [][\A path \in DOMAIN client.items :
          RevertsToBeforeClick(path) /\ RevertedIsStored(path)]_vars

(* ==================== properties: load more =========================== *)

\* The ids of the comments on display, in order.
DisplayedIds == [i \in 1..Len(client.comments) |-> client.comments[i]._id]

\* The ids of a page of the listing, and of the pages 1..q one after the
\* other, as the server answers now.
ServerPage(q) ==
    GetCommentsResponse(client.postId, client.sortBy, q, SectionPageLimit).comments

RECURSIVE ServerPages(_)
ServerPages(q) == IF q = 0 THEN <<>> ELSE ServerPages(q - 1) \o ServerPage(q)

\* The step is a click on 'Load More Comments'.
LoadMoreClicked == client.mounted /\ client'.page = client.page + 1

\* A click while pages 1..p are on display sends a request for page p + 1.
AsksNextPage ==
    (LoadMoreClicked /\ DisplayedIds = ServerPages(client.page))
      => \E f \in (Len(client.fetches) + 1)..Len(client'.fetches) :
            client'.fetches[f].page = client.page + 1

\* With no request waiting for an answer the list on display is the first
\* pages of the listing, each comment once.
SettledListIsPages ==
    (client.mounted /\ client.fetches = <<>>)
      => /\ \A i, j \in 1..Len(DisplayedIds) :
               DisplayedIds[i] = DisplayedIds[j] => i = j
         /\ \E q \in 0..MaxLoadPage : DisplayedIds = ServerPages(q)

\* C29 (as claimed). When pages 1..p are displayed, hasMore is true and
\* 'Load More Comments' is clicked, the request sent asks for page p + 1,
\* and once the fetches have settled the list on display is the pages
\* concatenated, no comment twice.
C29_LoadMoreNextPage == []SettledListIsPages /\ [][AsksNextPage]_vars

(* ====================== properties: following ========================= *)

\* The lists as stored.
StoredLists == [following |-> following, followers |-> followers]

\* Two lists hold the same users.
SameMembers(a, b) == \A u \in Users : Includes(a, u) <=> Includes(b, u)

====
